---------------------------- MODULE Spec2Model ----------------------------
(***************************************************************************)
(* M-ACT coordination backend (src/backend/app.py) with its validation and *)
(* auth layer (src/backend/security.py).                                   *)
(*                                                                         *)
(* Python strings are modelled as sequences of one-character strings, so   *)
(* that the validators act on characters as the code does.                 *)
(***************************************************************************)
EXTENDS Integers, Sequences, FiniteSets, TLC

VARIABLES rooms, last,
          notification_clients, active_developer_cache, sockets, notifies,
          session, exchange, frps,
          sup,
          probe,
          page,
          cli,
          creates

\* the backend's state
backend_vars == <<rooms, last>>

\* the state of the proxy's notification hub
hub_vars == <<notification_clients, active_developer_cache, sockets, notifies>>

\* one WebSocket mirror session of the proxy
wsm_vars == <<session>>

\* one request to the proxy's HTTP mirror
http_vars == <<exchange>>

\* the FrpsManager and the processes it spawned
frps_vars == <<frps>>

\* the FrpSupervisor and the frpc processes it spawned
sup_vars == <<sup>>

\* the last call of a validator and what it answered
probe_vars == <<probe>>

\* one request to the proxy's dashboard
dash_vars == <<page>>

\* src/admin_cli.py: what the last command of the admin CLI printed and returned
cli_vars == <<cli>>

\* src/backend/app.py: the create-room requests being handled, one thread each
race_vars == <<creates>>

vars == <<backend_vars, hub_vars, wsm_vars, http_vars, frps_vars, sup_vars, probe_vars, dash_vars, cli_vars, race_vars>>

-----------------------------------------------------------------------------
(* Characters and the str methods the validators use.                      *)

LowerLetters == <<"a","b","c","d","e","f","g","h","i","j","k","l","m",
                  "n","o","p","q","r","s","t","u","v","w","x","y","z">>

UpperLetters == <<"A","B","C","D","E","F","G","H","I","J","K","L","M",
                  "N","O","P","Q","R","S","T","U","V","W","X","Y","Z">>

Range(s) == {s[i] : i \in DOMAIN s}

LowerSet == Range(LowerLetters)

UpperSet == Range(UpperLetters)

DigitSet == {"0","1","2","3","4","5","6","7","8","9"}

HexSet == DigitSet \cup {"a","b","c","d","e","f"}

\* str.strip() with no argument strips these (the ASCII whitespace)
Whitespace == {" ", "\t", "\n", "\r", "\f"}

\* str.lower() on one character
LowerChar(c) ==
    IF c \in UpperSet
    THEN LowerLetters[CHOOSE i \in DOMAIN UpperLetters : UpperLetters[i] = c]
    ELSE c

\* str.lower()
Lower(s) == [i \in DOMAIN s |-> LowerChar(s[i])]

\* str.replace(old, new) for a one-character old and new
ReplaceChar(s, old, new) == [i \in DOMAIN s |-> IF s[i] = old THEN new ELSE s[i]]

\* str.replace(old, '') for a one-character old
RECURSIVE RemoveChar(_, _)
RemoveChar(s, old) ==
    IF s = <<>> THEN <<>>
    ELSE (IF Head(s) = old THEN <<>> ELSE <<Head(s)>>) \o RemoveChar(Tail(s), old)

\* the characters of s that are in keep, in order: re.sub(r'[^...]', '', s)
RECURSIVE KeepChars(_, _)
KeepChars(s, keep) ==
    IF s = <<>> THEN <<>>
    ELSE (IF Head(s) \in keep THEN <<Head(s)>> ELSE <<>>) \o KeepChars(Tail(s), keep)

\* re.sub(r'-+', '-', s): every run of hyphens becomes one hyphen
RECURSIVE CollapseHyphens(_)
CollapseHyphens(s) ==
    IF Len(s) < 2 THEN s
    ELSE IF s[1] = "-" /\ s[2] = "-" THEN CollapseHyphens(Tail(s))
    ELSE <<Head(s)>> \o CollapseHyphens(Tail(s))

\* str.lstrip(chars)
RECURSIVE LStrip(_, _)
LStrip(s, chars) ==
    IF s # <<>> /\ Head(s) \in chars THEN LStrip(Tail(s), chars) ELSE s

\* str.rstrip(chars)
RECURSIVE RStrip(_, _)
RStrip(s, chars) ==
    IF s # <<>> /\ s[Len(s)] \in chars
    THEN RStrip(SubSeq(s, 1, Len(s) - 1), chars) ELSE s

\* str.strip(chars)
Strip(s, chars) == RStrip(LStrip(s, chars), chars)

\* str.startswith(p)
StartsWith(s, p) == Len(s) >= Len(p) /\ SubSeq(s, 1, Len(p)) = p

\* str.endswith(p)
EndsWith(s, p) == Len(s) >= Len(p) /\ SubSeq(s, Len(s) - Len(p) + 1, Len(s)) = p

\* p in s (substring test)
Contains(s, p) ==
    \E i \in 1..(Len(s) - Len(p) + 1) : SubSeq(s, i, i + Len(p) - 1) = p

\* every character of s is in class
AllIn(s, class) == \A i \in DOMAIN s : s[i] \in class

\* re.match(r'^[class]+$', s): Python's $ also matches just before one
\* trailing newline
MatchPlus(s, class) ==
    \/ s # <<>> /\ AllIn(s, class)
    \/ /\ Len(s) >= 2
       /\ s[Len(s)] = "\n"
       /\ AllIn(SubSeq(s, 1, Len(s) - 1), class)

\* re.match(r'^[class]{lo,hi}$', s), with the same $ rule
MatchRange(s, class, lo, hi) ==
    \/ Len(s) >= lo /\ Len(s) <= hi /\ AllIn(s, class)
    \/ /\ Len(s) - 1 >= lo /\ Len(s) - 1 <= hi
       /\ s[Len(s)] = "\n"
       /\ AllIn(SubSeq(s, 1, Len(s) - 1), class)

-----------------------------------------------------------------------------
(* src/backend/security.py: patterns, limits, validators.  A validator     *)
(* returns [ok |-> TRUE, value |-> cleaned] or [ok |-> FALSE] where the    *)
(* code raises ValidationError.                                            *)

ROOM_CODE_CLASS == LowerSet \cup DigitSet \cup {"-"}

DEVELOPER_ID_CLASS == LowerSet \cup UpperSet \cup DigitSet \cup {"_", "-"}

BRANCH_CLASS == LowerSet \cup UpperSet \cup DigitSet \cup {"/", "_", "-"}

MAX_ROOM_CODE_LENGTH == 50

MAX_DEVELOPER_ID_LENGTH == 30

MAX_COMMIT_MESSAGE_LENGTH == 200

MAX_BRANCH_LENGTH == 50

COMMIT_HASH_MIN == 7

COMMIT_HASH_MAX == 40

Invalid == [ok |-> FALSE]

Valid(v) == [ok |-> TRUE, value |-> v]

validate_room_code(room_code) ==
    IF room_code = <<>> THEN Invalid
    ELSE IF Len(room_code) > MAX_ROOM_CODE_LENGTH THEN Invalid
    ELSE IF ~MatchPlus(room_code, ROOM_CODE_CLASS) THEN Invalid
    ELSE IF StartsWith(room_code, <<"-">>) \/ EndsWith(room_code, <<"-">>) THEN Invalid
    ELSE Valid(Strip(room_code, Whitespace))

validate_developer_id(developer_id) ==
    IF developer_id = <<>> THEN Invalid
    ELSE IF Len(developer_id) > MAX_DEVELOPER_ID_LENGTH THEN Invalid
    ELSE IF ~MatchPlus(developer_id, DEVELOPER_ID_CLASS) THEN Invalid
    ELSE Valid(Strip(developer_id, Whitespace))

validate_commit_hash(commit_hash) ==
    IF commit_hash = <<>> THEN Invalid
    ELSE IF ~MatchRange(commit_hash, HexSet, COMMIT_HASH_MIN, COMMIT_HASH_MAX) THEN Invalid
    ELSE Valid(Lower(Strip(commit_hash, Whitespace)))

validate_branch(branch) ==
    IF branch = <<>> THEN Invalid
    ELSE IF Len(branch) > MAX_BRANCH_LENGTH THEN Invalid
    ELSE IF ~MatchPlus(branch, BRANCH_CLASS) THEN Invalid
    ELSE Valid(Strip(branch, Whitespace))

\* mutant: leading and trailing hyphens are kept
validate_project_name_unstripped(project_name) ==
    IF project_name = <<>> THEN Invalid
    ELSE LET lowered  == Lower(project_name)
             hyphened == ReplaceChar(ReplaceChar(lowered, " ", "-"), "_", "-")
             kept     == KeepChars(hyphened, ROOM_CODE_CLASS)
             room_code == CollapseHyphens(kept)
         IN  IF room_code = <<>> THEN Invalid
             ELSE IF Len(room_code) > MAX_ROOM_CODE_LENGTH THEN Invalid
             ELSE Valid(room_code)

validate_project_name(project_name) ==
    IF project_name = <<>> THEN Invalid
    ELSE LET lowered  == Lower(project_name)
             hyphened == ReplaceChar(ReplaceChar(lowered, " ", "-"), "_", "-")
             kept     == KeepChars(hyphened, ROOM_CODE_CLASS)
             collapsed == CollapseHyphens(kept)
             room_code == Strip(collapsed, {"-"})
         IN  IF room_code = <<>> THEN Invalid
             ELSE IF Len(room_code) > MAX_ROOM_CODE_LENGTH THEN Invalid
             ELSE Valid(room_code)

\* re.sub(r'<[^>]+>', '', s): leftmost, non-overlapping; a tag is "<", one or
\* more characters other than ">", then ">"
RECURSIVE StripTags(_)
StripTags(s) ==
    IF s = <<>> THEN <<>>
    ELSE LET closers == {j \in 2..Len(s) : s[j] = ">"}
             first   == CHOOSE j \in closers : \A k \in closers : j <= k
         IN  IF Head(s) = "<" /\ closers # {} /\ first >= 3
             THEN StripTags(SubSeq(s, first + 1, Len(s)))
             ELSE <<Head(s)>> \o StripTags(Tail(s))

sanitize_html(text) == StripTags(text)

validate_commit_message(message) ==
    IF message = <<>> THEN Invalid
    ELSE LET untagged == StripTags(message)
             oneline  == RemoveChar(ReplaceChar(untagged, "\n", " "), "\r")
             trimmed  == Strip(oneline, Whitespace)
         IN  IF Len(trimmed) > MAX_COMMIT_MESSAGE_LENGTH THEN Invalid
             ELSE Valid(trimmed)

\* URL_PATTERN, first alternative of the host group: [a-z0-9.-]+\.[a-z]{2,}
HostWithTld(host) ==
    \E k \in 2..(Len(host) - 2) :
        /\ host[k] = "."
        /\ AllIn(SubSeq(host, 1, k - 1), LowerSet \cup DigitSet \cup {".", "-"})
        /\ AllIn(SubSeq(host, k + 1, Len(host)), LowerSet)

\* URL_PATTERN, the host group
UrlHost(host) ==
    \/ HostWithTld(host)
    \/ host = <<"l","o","c","a","l","h","o","s","t">>
    \/ host = <<"1","2","7",".","0",".","0",".","1">>
    \/ host = <<"0",".","0",".","0",".","0">>

\* URL_PATTERN after the host: (:[0-9]+)?(/.*)? up to the end; "." matches no
\* newline
UrlTail(t) ==
    \E p \in 0..Len(t) :
        LET port == SubSeq(t, 1, p)
            path == SubSeq(t, p + 1, Len(t))
        IN  /\ \/ p = 0
               \/ p >= 2 /\ port[1] = ":" /\ AllIn(Tail(port), DigitSet)
            /\ \/ path = <<>>
               \/ path[1] = "/" /\ "\n" \notin Range(path)

\* URL_PATTERN without the final $, on the lower-cased text (re.IGNORECASE)
UrlBody(s) ==
    \E scheme \in {<<"h","t","t","p",":","/","/">>, <<"h","t","t","p","s",":","/","/">>} :
        /\ StartsWith(s, scheme)
        /\ \E h \in (Len(scheme) + 1)..Len(s) :
               /\ UrlHost(SubSeq(s, Len(scheme) + 1, h))
               /\ UrlTail(SubSeq(s, h + 1, Len(s)))

\* URL_PATTERN.match(url)
UrlMatch(url) ==
    \/ UrlBody(Lower(url))
    \/ /\ url # <<>>
       /\ url[Len(url)] = "\n"
       /\ UrlBody(Lower(SubSeq(url, 1, Len(url) - 1)))

validate_subdomain_url(url) ==
    IF url = <<>> THEN Invalid
    ELSE IF ~UrlMatch(url) THEN Invalid
    ELSE IF ~(\/ Contains(url, <<"d","e","v","-">>)
              \/ Contains(url, <<"l","o","c","a","l","h","o","s","t">>)
              \/ Contains(url, <<"1","2","7",".","0",".","0",".","1">>)) THEN Invalid
    ELSE Valid(RStrip(Strip(url, Whitespace), {"/"}))

\* ADMIN_API_KEY: the default of the environment lookup
ADMIN_API_KEY == "changeme-in-production"

-----------------------------------------------------------------------------
(* The requests clients send.                                              *)

\* the most commits the backend is asked to accept for one room
MaxCommits == 2

S_Demo == <<"D","e","m","o">>

S_demo == <<"d","e","m","o">>

S_al == <<"a","l">>

S_bo == <<"b","o">>

U_al == <<"h","t","t","p",":","/","/","d","e","v","-","a","l",".","i","o">>

U_al_port == U_al \o <<":","8","0">>

U_bo == <<"h","t","t","p",":","/","/","d","e","v","-","b","o",".","i","o">>

\* a developer's client and the tunnel URLs it registers, as it sends them
Clients ==
    {[developer_id |-> S_al, urls |-> {U_al, U_al_port \o <<"/","a","/">>}],
     [developer_id |-> S_bo, urls |-> {U_bo}]}

RawProjectNames == {S_Demo, S_demo}

\* <<>> is the empty string, or the absent query parameter
RawRoomCodes == {S_demo, <<"-","x">>, <<>>}

RawHash == <<"a","b","c","1","2","3","4">>

RawBranch == <<"m","a","i","n">>

RawMessage == <<"<","b",">","f","i","x","<","/","b",">">>

\* time.time(): the reading is stored in the commit and read by no handler
Timestamps == {"now"}

\* JSON bodies: every client with every project or room, then bodies with
\* one invalid field, a body that lacks a required field, the empty object
CreateBodies ==
    UNION {[project_name : RawProjectNames, developer_id : {c.developer_id},
            subdomain_url : c.urls] : c \in Clients}
      \cup {[project_name |-> <<"!">>, developer_id |-> S_al, subdomain_url |-> U_al],
            [project_name |-> S_demo, developer_id |-> <<"a"," ","l">>, subdomain_url |-> U_al],
            [project_name |-> S_demo, developer_id |-> S_al,
             subdomain_url |-> <<"h","t","t","p",":","/","/","a",".","i","o">>],
            [project_name |-> S_demo, developer_id |-> S_al],
            <<>>}

JoinBodies ==
    UNION {[room_code : {S_demo}, developer_id : {c.developer_id},
            subdomain_url : c.urls] : c \in Clients}
      \cup {[room_code |-> <<"-","x">>, developer_id |-> S_al, subdomain_url |-> U_al],
            [room_code |-> S_demo, developer_id |-> <<"a"," ","l">>, subdomain_url |-> U_al],
            [room_code |-> S_demo, developer_id |-> S_al,
             subdomain_url |-> <<"h","t","t","p",":","/","/","a",".","i","o">>],
            [room_code |-> S_demo, developer_id |-> S_al],
            <<>>}

LeaveBodies ==
    {[room_code |-> S_demo, developer_id |-> c.developer_id] : c \in Clients}
      \cup {[room_code |-> <<>>, developer_id |-> S_al],
            [room_code |-> S_demo, developer_id |-> <<"a"," ","l">>],
            [room_code |-> S_demo],
            <<>>}

CommitBody(room_code, developer_id, commit_hash) ==
    [room_code |-> room_code, developer_id |-> developer_id, commit_hash |-> commit_hash,
     branch |-> RawBranch, commit_message |-> RawMessage]

CommitBodies ==
    {CommitBody(S_demo, c.developer_id, RawHash) : c \in Clients}
      \cup {CommitBody(<<"-","x">>, S_al, RawHash),
            CommitBody(S_demo, <<"a"," ","l">>, RawHash),
            CommitBody(S_demo, S_al, <<"x","y","z">>),
            [room_code |-> S_demo, developer_id |-> S_al],
            <<>>}

\* a path parameter is never empty (the route would not match)
PathRoomCodes == RawRoomCodes \ {<<>>}

AuthHeaders ==
    {[authorization |-> <<>>, api_key |-> ""],
     [authorization |-> <<"Bearer ", ADMIN_API_KEY>>, api_key |-> ""],
     [authorization |-> <<"Bearer ", "wrong">>, api_key |-> ADMIN_API_KEY],
     [authorization |-> <<>>, api_key |-> ADMIN_API_KEY]}


-----------------------------------------------------------------------------
(* The validators' answers on the field values that occur in the requests, *)
(* computed once; a handler's call of a validator reads them.              *)

FieldValues(bodies, field) == {d[field] : d \in {b \in bodies : field \in DOMAIN b}}

AllBodies == CreateBodies \cup JoinBodies \cup LeaveBodies \cup CommitBodies

RoomCodeAnswers ==
    [x \in FieldValues(AllBodies, "room_code") \cup RawRoomCodes |-> validate_room_code(x)]

ProjectNameAnswers ==
    [x \in FieldValues(AllBodies, "project_name") |-> validate_project_name(x)]

DeveloperIdAnswers ==
    [x \in FieldValues(AllBodies, "developer_id") |-> validate_developer_id(x)]

SubdomainUrlAnswers ==
    [x \in FieldValues(AllBodies, "subdomain_url") |-> validate_subdomain_url(x)]

CommitHashAnswers ==
    [x \in FieldValues(AllBodies, "commit_hash") |-> validate_commit_hash(x)]

BranchAnswers ==
    [x \in FieldValues(AllBodies, "branch") |-> validate_branch(x)]

CommitMessageAnswers ==
    [x \in FieldValues(AllBodies, "commit_message") |-> validate_commit_message(x)]

room_code_of(x) ==
    IF x \in DOMAIN RoomCodeAnswers THEN RoomCodeAnswers[x] ELSE validate_room_code(x)

project_name_of(x) ==
    IF x \in DOMAIN ProjectNameAnswers THEN ProjectNameAnswers[x] ELSE validate_project_name(x)

developer_id_of(x) ==
    IF x \in DOMAIN DeveloperIdAnswers THEN DeveloperIdAnswers[x] ELSE validate_developer_id(x)

subdomain_url_of(x) ==
    IF x \in DOMAIN SubdomainUrlAnswers THEN SubdomainUrlAnswers[x] ELSE validate_subdomain_url(x)

commit_hash_of(x) ==
    IF x \in DOMAIN CommitHashAnswers THEN CommitHashAnswers[x] ELSE validate_commit_hash(x)

branch_of(x) ==
    IF x \in DOMAIN BranchAnswers THEN BranchAnswers[x] ELSE validate_branch(x)

commit_message_of(x) ==
    IF x \in DOMAIN CommitMessageAnswers THEN CommitMessageAnswers[x] ELSE validate_commit_message(x)

-----------------------------------------------------------------------------
(* src/backend/security.py: the request gates.                             *)

\* mutant: the gate lets every request through
require_admin_auth_open(headers) == 0

\* require_admin_auth: 0 when the wrapped endpoint runs, else the status code
\* answered.  The Authorization header is <<>> (absent) or <<prefix, rest>>;
\* api_key is the query parameter ("" when absent).
require_admin_auth(headers) ==
    LET auth_header  == headers.authorization
        provided_key == IF auth_header # <<>> /\ auth_header[1] = "Bearer "
                        THEN auth_header[2]
                        ELSE headers.api_key
    IN  IF provided_key = "" THEN 401
        ELSE IF provided_key # ADMIN_API_KEY THEN 403
        ELSE 0

\* validate_request_json(*required_fields): TRUE when the endpoint runs.  A
\* JSON body is a function from its field names to their values; the empty
\* object is falsy.
validate_request_json(data, required_fields) ==
    /\ DOMAIN data # {}
    /\ \A field \in required_fields : field \in DOMAIN data

-----------------------------------------------------------------------------
(* src/backend/app.py: the room table.                                     *)
(*                                                                         *)
(* rooms : room_code -> [participants, commits].  participants is the      *)
(* OrderedDict as the sequence of its items in insertion order; an item's  *)
(* value is the bare URL string (is_dict = FALSE) or the dict              *)
(* {subdomain_url, connected} (is_dict = TRUE).                            *)

\* Python's None
None == <<"None">>

\* not x, for x a string or None
Falsy(x) == x = None \/ x = <<>>

StrInfo(url) == [is_dict |-> FALSE, subdomain_url |-> url]

DictInfo(url, connected) ==
    [is_dict |-> TRUE, subdomain_url |-> url, connected |-> connected]

\* developer_id in participants
HasKey(participants, developer_id) ==
    \E i \in DOMAIN participants : participants[i].developer_id = developer_id

KeyIndex(participants, developer_id) ==
    CHOOSE i \in DOMAIN participants : participants[i].developer_id = developer_id

\* participants[developer_id]
GetItem(participants, developer_id) ==
    participants[KeyIndex(participants, developer_id)].info

\* mutant: a new key goes first
SetItemFirst(participants, developer_id, info) ==
    IF HasKey(participants, developer_id)
    THEN [participants EXCEPT ![KeyIndex(participants, developer_id)].info = info]
    ELSE <<[developer_id |-> developer_id, info |-> info]>> \o participants

\* participants[developer_id] = info: an existing key keeps its position, a
\* new key goes last
SetItem(participants, developer_id, info) ==
    IF HasKey(participants, developer_id)
    THEN [participants EXCEPT ![KeyIndex(participants, developer_id)].info = info]
    ELSE Append(participants, [developer_id |-> developer_id, info |-> info])

\* list(participants.keys())
Keys(participants) == [i \in DOMAIN participants |-> participants[i].developer_id]

\* f"http://{room_code}.m-act.live"
PublicUrl(room_code) ==
    <<"h","t","t","p",":","/","/">> \o room_code
        \o <<".","m","-","a","c","t",".","l","i","v","e">>

\* what a handler does: the room table it leaves, the answer, and the
\* effects in the order the handler performs them
Result(rs, code, body, effects) ==
    [rooms |-> rs, code |-> code, body |-> body, effects |-> effects]

ErrorBody(error) == [error |-> error]

\* rooms[room_code]["commits"].append(commit), as an effect
AppendEffect(room_code, commit) ==
    [kind |-> "append", room_code |-> room_code, commit |-> commit]

\* _notify_proxy_async: one thread started with this JSON
NotifyActive(room_code, developer_id) ==
    [kind |-> "notify",
     json |-> [room_code |-> room_code, active_developer |-> developer_id]]

\* _notify_proxy_room_update: one thread started with this JSON
NotifyRoomUpdate(room_code) ==
    [kind |-> "notify",
     json |-> [room_code |-> room_code, event_type |-> "room_update"]]

\* rooms[room_code] = room
PutRoom(rs, room_code, room) ==
    [c \in DOMAIN rs \cup {room_code} |-> IF c = room_code THEN room ELSE rs[c]]

\* mutant: the room stays in the table
DelRoomForgotten(rs, room_code) == rs

\* del rooms[room_code]
DelRoom(rs, room_code) == [c \in DOMAIN rs \ {room_code} |-> rs[c]]

\* mutant: the room is stored without looking for an existing one
create_room_overwriting(rs, room_code, developer_id, subdomain_url) ==
    Result(
      PutRoom(rs, room_code,
          [participants |-> <<[developer_id |-> developer_id,
                               info |-> StrInfo(subdomain_url)]>>,
           commits |-> <<>>]),
      201,
      [room_code |-> room_code, public_url |-> PublicUrl(room_code)],
      <<>>)

\* create_room once its fields validated
create_room_validated(rs, room_code, developer_id, subdomain_url) ==
    IF room_code \in DOMAIN rs
    THEN Result(rs, 409, ErrorBody("Room with this project name already exists"), <<>>)
    ELSE Result(
           PutRoom(rs, room_code,
               [participants |-> <<[developer_id |-> developer_id,
                                    info |-> StrInfo(subdomain_url)]>>,
                commits |-> <<>>]),
           201,
           [room_code |-> room_code, public_url |-> PublicUrl(room_code)],
           <<>>)

\* POST /rooms/create
create_room(rs, data) ==
    IF ~validate_request_json(data, {"project_name", "developer_id", "subdomain_url"})
    THEN Result(rs, 400, ErrorBody("Invalid request"), <<>>)
    ELSE
    LET room_code     == project_name_of(data.project_name)
        developer_id  == developer_id_of(data.developer_id)
        subdomain_url == subdomain_url_of(data.subdomain_url)
    IN  IF ~(room_code.ok /\ developer_id.ok /\ subdomain_url.ok)
        THEN Result(rs, 400, ErrorBody("Validation failed"), <<>>)
        ELSE create_room_validated(rs, room_code.value, developer_id.value,
                                   subdomain_url.value)

\* mutant: an unknown room is announced to the proxy all the same
join_room_announcing(rs, room_code, developer_id, subdomain_url) ==
    IF room_code \notin DOMAIN rs
    THEN Result(rs, 404, ErrorBody("Room not found"), <<NotifyRoomUpdate(room_code)>>)
    ELSE
    LET room   == rs[room_code]
        joined == SetItem(room.participants, developer_id, DictInfo(subdomain_url, TRUE))
    IN  Result(
          PutRoom(rs, room_code, [room EXCEPT !.participants = joined]),
          200,
          [status |-> IF HasKey(room.participants, developer_id)
                      THEN "reconnected" ELSE "success",
           public_url |-> PublicUrl(room_code)],
          <<NotifyRoomUpdate(room_code)>>)

\* join_room once its fields validated
join_room_validated(rs, room_code, developer_id, subdomain_url) ==
    IF room_code \notin DOMAIN rs
    THEN Result(rs, 404, ErrorBody("Room not found"), <<>>)
    ELSE
    LET room   == rs[room_code]
        rejoin == HasKey(room.participants, developer_id)
        joined == SetItem(room.participants, developer_id, DictInfo(subdomain_url, TRUE))
    IN  Result(
          PutRoom(rs, room_code, [room EXCEPT !.participants = joined]),
          200,
          [status |-> IF rejoin THEN "reconnected" ELSE "success",
           public_url |-> PublicUrl(room_code)],
          <<NotifyRoomUpdate(room_code)>>)

\* POST /rooms/join
join_room(rs, data) ==
    IF ~validate_request_json(data, {"room_code", "developer_id", "subdomain_url"})
    THEN Result(rs, 400, ErrorBody("Invalid request"), <<>>)
    ELSE
    LET room_code     == room_code_of(data.room_code)
        developer_id  == developer_id_of(data.developer_id)
        subdomain_url == subdomain_url_of(data.subdomain_url)
    IN  IF ~(room_code.ok /\ developer_id.ok /\ subdomain_url.ok)
        THEN Result(rs, 400, ErrorBody("Validation failed"), <<>>)
        ELSE join_room_validated(rs, room_code.value, developer_id.value,
                                 subdomain_url.value)

\* mutant: converting a bare string loses its URL
mark_disconnected_losing_url(participant_info) ==
    IF participant_info.is_dict
    THEN [participant_info EXCEPT !.connected = FALSE]
    ELSE DictInfo(<<>>, FALSE)

\* leave_room: the participant's value marked as disconnected
mark_disconnected(participant_info) ==
    IF participant_info.is_dict
    THEN [participant_info EXCEPT !.connected = FALSE]
    ELSE DictInfo(participant_info.subdomain_url, FALSE)

\* mutant: the leaver's key is removed
participants_without(participants, developer_id) ==
    SelectSeq(participants, LAMBDA p : p.developer_id # developer_id)

\* leave_room: the participants after developer_id left
participants_after_leave(participants, developer_id) ==
    SetItem(participants, developer_id,
            mark_disconnected(GetItem(participants, developer_id)))

\* leave_room once its fields validated
leave_room_validated(rs, room_code, developer_id) ==
    IF room_code \notin DOMAIN rs
    THEN Result(rs, 404, ErrorBody("Room not found"), <<>>)
    ELSE IF ~HasKey(rs[room_code].participants, developer_id)
    THEN Result(rs, 404, ErrorBody("Developer not in room"), <<>>)
    ELSE
    LET room == rs[room_code]
        left == participants_after_leave(room.participants, developer_id)
    IN  Result(
          PutRoom(rs, room_code, [room EXCEPT !.participants = left]),
          200,
          [status |-> "success"],
          <<NotifyRoomUpdate(room_code)>>)

\* POST /rooms/leave
leave_room(rs, data) ==
    IF ~validate_request_json(data, {"room_code", "developer_id"})
    THEN Result(rs, 400, ErrorBody("Invalid request"), <<>>)
    ELSE
    LET room_code    == room_code_of(data.room_code)
        developer_id == developer_id_of(data.developer_id)
    IN  IF ~(room_code.ok /\ developer_id.ok)
        THEN Result(rs, 400, ErrorBody("Validation failed"), <<>>)
        ELSE leave_room_validated(rs, room_code.value, developer_id.value)

\* mutant: anybody may commit
may_commit_anyone(participants, developer_id) == TRUE

\* report_commit: is the developer allowed to commit to the room
may_commit(participants, developer_id) == HasKey(participants, developer_id)

\* mutant: the newest commit goes first
commits_newest_first(commits, commit) == <<commit>> \o commits

\* report_commit: rooms[room_code]["commits"].append(commit)
commits_after_report(commits, commit) == Append(commits, commit)

\* mutant: every commit is announced as a change of active developer
commit_notification_always_change(previous_active, room_code, developer_id) ==
    NotifyActive(room_code, developer_id)

\* report_commit: the notification fired after the append
commit_notification(previous_active, room_code, developer_id) ==
    IF previous_active # developer_id
    THEN NotifyActive(room_code, developer_id)
    ELSE NotifyRoomUpdate(room_code)

\* report_commit once its fields validated; now is what time.time() returns
report_commit_validated(rs, room_code, developer_id, commit, now) ==
    IF room_code \notin DOMAIN rs
    THEN Result(rs, 404, ErrorBody("Room not found"), <<>>)
    ELSE IF ~may_commit(rs[room_code].participants, developer_id)
    THEN Result(rs, 403, ErrorBody("Developer not in room"), <<>>)
    ELSE
    LET room    == rs[room_code]
        commits == room.commits
        previous_active == IF commits # <<>>
                           THEN commits[Len(commits)].developer_id
                           ELSE None
        stamped == [commit_hash    |-> commit.commit_hash,
                    branch         |-> commit.branch,
                    commit_message |-> commit.commit_message,
                    developer_id   |-> developer_id,
                    timestamp      |-> now]
    IN  Result(
          PutRoom(rs, room_code,
                  [room EXCEPT !.commits = commits_after_report(commits, stamped)]),
          200,
          [status |-> "success"],
          <<AppendEffect(room_code, stamped),
            commit_notification(previous_active, room_code, developer_id)>>)

\* POST /report-commit
report_commit(rs, data, now) ==
    IF ~validate_request_json(data,
           {"room_code", "developer_id", "commit_hash", "branch", "commit_message"})
    THEN Result(rs, 400, ErrorBody("Invalid request"), <<>>)
    ELSE
    LET room_code      == room_code_of(data.room_code)
        developer_id   == developer_id_of(data.developer_id)
        commit_hash    == commit_hash_of(data.commit_hash)
        branch         == branch_of(data.branch)
        commit_message == commit_message_of(data.commit_message)
    IN  IF ~(room_code.ok /\ developer_id.ok /\ commit_hash.ok
                /\ branch.ok /\ commit_message.ok)
        THEN Result(rs, 400, ErrorBody("Validation failed"), <<>>)
        ELSE report_commit_validated(rs, room_code.value, developer_id.value,
                 [commit_hash |-> commit_hash.value, branch |-> branch.value,
                  commit_message |-> commit_message.value],
                 now)

\* mutant: a bare string does not count as connected
is_connected_record_only(info) ==
    IF info.is_dict
    THEN (IF "connected" \in DOMAIN info THEN info.connected ELSE TRUE)
    ELSE FALSE

\* info.get("connected", True) if isinstance(info, dict) else True
is_connected(info) ==
    IF info.is_dict
    THEN (IF "connected" \in DOMAIN info THEN info.connected ELSE TRUE)
    ELSE TRUE

\* mutant: the newest committer wins whether connected or not
status_latest_committer_unchecked(commits, participants, i) ==
    IF i = 0 THEN None ELSE commits[i].developer_id

\* get_room_status, the loop "for commit in reversed(commits)" from index i
\* down: the first committer that is a connected participant, else None
RECURSIVE status_latest_connected_committer(_, _, _)
status_latest_connected_committer(commits, participants, i) ==
    IF i = 0 THEN None
    ELSE LET dev_id == commits[i].developer_id
         IN  IF HasKey(participants, dev_id)
                  /\ is_connected(GetItem(participants, dev_id))
             THEN dev_id
             ELSE status_latest_connected_committer(commits, participants, i - 1)

\* mutant: the first participant, connected or not
status_first_listed(participants, i) ==
    IF i > Len(participants) THEN None ELSE participants[i].developer_id

\* get_room_status, the loop "for dev_id, info in participants.items()" from
\* index i up: the first connected participant, else None
RECURSIVE status_first_connected(_, _)
status_first_connected(participants, i) ==
    IF i > Len(participants) THEN None
    ELSE IF is_connected(participants[i].info) THEN participants[i].developer_id
    ELSE status_first_connected(participants, i + 1)

\* mutant: the latest committer, whether connected or not
status_active_latest_committer(room) ==
    IF room.commits # <<>> THEN room.commits[Len(room.commits)].developer_id
    ELSE room.participants[1].developer_id

\* get_room_status: the fallback chain that sets active_developer
status_active_developer(room) ==
    LET commits      == room.commits
        participants == room.participants
        by_commit    == IF commits # <<>>
                        THEN status_latest_connected_committer(commits, participants, Len(commits))
                        ELSE None
        by_connected == IF Falsy(by_commit) /\ participants # <<>>
                        THEN status_first_connected(participants, 1)
                        ELSE by_commit
    IN  IF Falsy(by_connected) /\ participants # <<>>
        THEN participants[1].developer_id
        ELSE by_connected

\* get_room_status: one entry of participants_list
status_participant(item) ==
    IF item.info.is_dict
    THEN [developer_id  |-> item.developer_id,
          subdomain_url |-> IF "subdomain_url" \in DOMAIN item.info
                            THEN item.info.subdomain_url ELSE <<>>,
          connected     |-> IF "connected" \in DOMAIN item.info
                            THEN item.info.connected ELSE FALSE]
    ELSE [developer_id  |-> item.developer_id,
          subdomain_url |-> item.info.subdomain_url,
          connected     |-> TRUE]

\* GET /rooms/status?room=...; an absent parameter is <<>>
get_room_status(rs, room) ==
    IF room = <<>> THEN Result(rs, 400, ErrorBody("Missing room parameter"), <<>>)
    ELSE
    LET room_code == room_code_of(room)
    IN  IF ~room_code.ok THEN Result(rs, 400, ErrorBody("Validation failed"), <<>>)
        ELSE IF room_code.value \notin DOMAIN rs
        THEN Result(rs, 404, ErrorBody("Room not found"), <<>>)
        ELSE
        LET r       == rs[room_code.value]
            commits == r.commits
        IN  Result(rs, 200,
              [room_code        |-> room_code.value,
               active_developer |-> status_active_developer(r),
               latest_commit    |-> IF commits # <<>>
                                    THEN commits[Len(commits)].commit_hash
                                    ELSE None,
               participants     |-> [i \in DOMAIN r.participants |->
                                        status_participant(r.participants[i])]],
              <<>>)

\* get_active_url, the loop "for commit in reversed(commits)"
RECURSIVE url_latest_connected_committer(_, _, _)
url_latest_connected_committer(commits, participants, i) ==
    IF i = 0 THEN None
    ELSE LET dev_id == commits[i].developer_id
         IN  IF HasKey(participants, dev_id)
                  /\ is_connected(GetItem(participants, dev_id))
             THEN dev_id
             ELSE url_latest_connected_committer(commits, participants, i - 1)

\* mutant: the last connected participant instead of the first
url_last_connected(participants, i) ==
    LET connected == {j \in i..Len(participants) : is_connected(participants[j].info)}
    IN  IF connected = {} THEN None
        ELSE participants[CHOOSE j \in connected : \A k \in connected : k <= j].developer_id

\* get_active_url, the loop "for dev_id, info in participants.items()"
RECURSIVE url_first_connected(_, _)
url_first_connected(participants, i) ==
    IF i > Len(participants) THEN None
    ELSE IF is_connected(participants[i].info) THEN participants[i].developer_id
    ELSE url_first_connected(participants, i + 1)

\* get_active_url: the fallback chain that sets active_developer (None when
\* the room has no participants)
url_active_developer(room) ==
    LET commits      == room.commits
        participants == room.participants
        by_commit    == IF commits # <<>>
                        THEN url_latest_connected_committer(commits, participants, Len(commits))
                        ELSE None
        by_connected == IF Falsy(by_commit) /\ participants # <<>>
                        THEN url_first_connected(participants, 1)
                        ELSE by_commit
    IN  IF participants = <<>> THEN None
        ELSE IF Falsy(by_connected) /\ participants # <<>>
        THEN participants[1].developer_id
        ELSE by_connected

\* the longest prefix of s with no character of stops
RECURSIVE TakeUntil(_, _)
TakeUntil(s, stops) ==
    IF s = <<>> \/ Head(s) \in stops THEN <<>>
    ELSE <<Head(s)>> \o TakeUntil(Tail(s), stops)

\* mutant: everything after "http://" is taken for the host
NetlocAndPath(url) == SubSeq(url, 8, Len(url))

\* urlparse(url).netloc: what follows "<scheme>://" up to the first of / ? #
Netloc(url) ==
    LET colons == {i \in DOMAIN url : url[i] = ":"}
        first  == CHOOSE i \in colons : \A k \in colons : i <= k
        rest   == SubSeq(url, first + 1, Len(url))
    IN  IF colons # {} /\ StartsWith(rest, <<"/", "/">>)
        THEN TakeUntil(SubSeq(rest, 3, Len(rest)), {"/", "?", "#"})
        ELSE <<>>

\* "http://127.0.0.1:7101|Host:"
FRP_PREFIX ==
    <<"h","t","t","p",":","/","/","1","2","7",".","0",".","0",".","1",":",
      "7","1","0","1","|","H","o","s","t",":">>

\* get_active_url: active_url for the resolved developer
url_for_developer(participants, active_developer) ==
    IF Falsy(active_developer) THEN None
    ELSE LET info          == GetItem(participants, active_developer)
             subdomain_url == IF info.is_dict
                              THEN (IF "subdomain_url" \in DOMAIN info
                                    THEN info.subdomain_url ELSE None)
                              ELSE info.subdomain_url
         IN  IF Falsy(subdomain_url) THEN None
             ELSE FRP_PREFIX \o Netloc(subdomain_url)

\* GET /get-active-url?room=...; an absent parameter is <<>>
get_active_url(rs, room) ==
    LET room_code == IF room # <<>> THEN room_code_of(room) ELSE Valid(room)
    IN  IF ~room_code.ok THEN Result(rs, 400, ErrorBody("Validation failed"), <<>>)
        ELSE IF room_code.value = <<>> \/ room_code.value \notin DOMAIN rs
        THEN Result(rs, 200, [active_url |-> None], <<>>)
        ELSE
        LET r == rs[room_code.value]
        IN  Result(rs, 200,
              [active_url |-> url_for_developer(r.participants, url_active_developer(r))],
              <<>>)

\* GET /rooms/<room_code>/commits
get_room_commits(rs, room) ==
    LET room_code == room_code_of(room)
    IN  IF ~room_code.ok THEN Result(rs, 400, ErrorBody("Validation failed"), <<>>)
        ELSE IF room_code.value \notin DOMAIN rs
        THEN Result(rs, 404, ErrorBody("Room not found"), <<>>)
        ELSE Result(rs, 200,
               [room_code |-> room_code.value, commits |-> rs[room_code.value].commits],
               <<>>)

\* GET /admin/rooms; the order of the listed rooms is not modelled
list_all_rooms(rs, headers) ==
    LET denied == require_admin_auth(headers)
    IN  IF denied # 0 THEN Result(rs, denied, ErrorBody("Not authorized"), <<>>)
        ELSE Result(rs, 200,
               [rooms |-> {[room_code        |-> c,
                            participants     |-> Keys(rs[c].participants),
                            commit_count     |-> Len(rs[c].commits),
                            active_developer |->
                                IF rs[c].commits # <<>>
                                THEN rs[c].commits[Len(rs[c].commits)].developer_id
                                ELSE None] : c \in DOMAIN rs}],
               <<>>)

\* DELETE /admin/rooms/<room_code>
delete_room(rs, headers, room) ==
    LET denied    == require_admin_auth(headers)
        room_code == room_code_of(room)
    IN  IF denied # 0 THEN Result(rs, denied, ErrorBody("Not authorized"), <<>>)
        ELSE IF ~room_code.ok THEN Result(rs, 400, ErrorBody("Validation failed"), <<>>)
        ELSE IF room_code.value \notin DOMAIN rs
        THEN Result(rs, 404, ErrorBody("Room not found"), <<>>)
        ELSE Result(DelRoom(rs, room_code.value), 200,
               [status |-> "success"],
               <<NotifyRoomUpdate(room_code.value)>>)

\* GET /health
health_check(rs) ==
    Result(rs, 200, [status |-> "healthy", rooms_count |-> Cardinality(DOMAIN rs)], <<>>)

-----------------------------------------------------------------------------
(* The backend as a state machine: one action per endpoint.  last is the   *)
(* request just handled: its endpoint, the validated room code and         *)
(* developer id it named (None where absent or invalid), and the answer.   *)

\* the value of a validated field of a JSON body, None when absent or invalid
Named(data, field, v) ==
    IF field \in DOMAIN data /\ v.ok THEN v.value ELSE None

NamedRoom(data) ==
    IF "room_code" \in DOMAIN data
    THEN Named(data, "room_code", room_code_of(data.room_code))
    ELSE IF "project_name" \in DOMAIN data
    THEN Named(data, "project_name", project_name_of(data.project_name))
    ELSE None

NamedDeveloper(data) ==
    IF "developer_id" \in DOMAIN data
    THEN Named(data, "developer_id", developer_id_of(data.developer_id))
    ELSE None

NamedPath(room) == LET v == room_code_of(room) IN IF v.ok THEN v.value ELSE None

\* what becomes of the POST a notification thread sends: answered by the
\* proxy, refused (or answered with an error), or timed out after 1 second
Fates == {"delivered", "refused", "timeout"}

\* mutant: a POST that fails raises in the handler
notify_proxy_raising(effect, fate) ==
    [json |-> effect.json, posts |-> 1, fate |-> fate, raised |-> fate # "delivered"]

\* _notify_proxy_async / _notify_proxy_room_update: a daemon thread is
\* started that posts the JSON once; whatever the POST does is swallowed in
\* the thread ("except Exception: pass"), nothing is raised in the handler
notify_proxy(effect, fate) ==
    [json |-> effect.json, posts |-> 1, fate |-> fate, raised |-> FALSE]

\* the notifications a handler started, in order, each with its fate
notifications(effects, fate) ==
    LET started == SelectSeq(effects, LAMBDA e : e.kind = "notify")
    IN  [i \in DOMAIN started |-> notify_proxy(started[i], fate)]

\* a request is handled; an exception that leaves the handler is answered
\* with 500 by Flask
Handle(op, room_code, developer_id, r) ==
    /\ \E sent \in {notifications(r.effects, fate) : fate \in Fates} :
         LET raised == \E i \in DOMAIN sent : sent[i].raised
         IN  /\ rooms' = r.rooms
             /\ last' = [op |-> op, room_code |-> room_code,
                         developer_id |-> developer_id,
                         code |-> IF raised THEN 500 ELSE r.code,
                         body |-> IF raised THEN ErrorBody("Internal Server Error")
                                  ELSE r.body,
                         effects |-> r.effects, notifications |-> sent]
    /\ UNCHANGED <<hub_vars, wsm_vars, http_vars, frps_vars, sup_vars, probe_vars, dash_vars, cli_vars, race_vars>>

\* the most calls of internal_notify_commit the hub is asked to serve
MaxCalls == 1

\* the WebSocket objects of the dashboard connections
Sockets == {"w1", "w2", "w3"}

\* a WebSocket before its connection arrives
NewSocket ==
    [pc |-> "new", room_code |-> None, open |-> TRUE, inbox |-> <<>>,
     close_code |-> 0]

\* a call of internal_notify_commit before its request arrives;
\* active_developer is the call's local variable of that name
NoCall ==
    [pc |-> "idle", room_code |-> None, type |-> "", active_developer |-> None,
     audience |-> <<>>, target |-> "", i |-> 0, disconnected |-> <<>>,
     detached |-> FALSE, code |-> 0]

\* src/proxy/app.py: _active_developer_cache = {}, _notification_clients = {}
HubInit ==
    /\ notification_clients = <<>>
    /\ active_developer_cache = <<>>
    /\ sockets = [w \in Sockets |-> NewSocket]
    /\ notifies = [k \in 1..MaxCalls |-> NoCall]

\* src/backend/app.py: rooms = {}
BackendInit ==
    /\ rooms = <<>>
    /\ last = [op |-> "start", room_code |-> None, developer_id |-> None,
               code |-> 0, body |-> <<>>, effects |-> <<>>, notifications |-> <<>>]

\* the most frames either side of a mirrored WebSocket sends
MaxFrames == 2

\* the coordination backend has not been asked
NoReply == [reached |-> FALSE, status_code |-> 0, is_json |-> FALSE, json |-> [detail |-> <<>>]]

\* a WebSocket mirror session before its connection arrives
NewSession ==
    [pc |-> "new", path_room |-> None, host |-> <<>>, room_code |-> None,
     reply |-> NoReply, active_url |-> None, events |-> <<>>,
     c2u |-> "idle", u2c |-> "idle", client_open |-> TRUE, upstream_open |-> FALSE,
     to_upstream |-> 0, to_client |-> 0, close_code |-> 0, reason |-> "",
     target_ws_url |-> <<>>]

WsmInit == session = NewSession

\* no upstream request was made
NoUpstream == [reached |-> FALSE, status_code |-> 0, headers |-> <<>>, content |-> <<>>]

\* the mirror has not answered
NoResponse == [status_code |-> 0, error |-> "", content |-> <<>>, headers |-> <<>>]

\* a request to the HTTP mirror before it arrives
NewExchange ==
    [pc |-> "new", path_room |-> None, host |-> <<>>, room_code |-> None,
     reply |-> NoReply, upstream |-> NoUpstream, upstream_requests |-> 0,
     response |-> NoResponse, target_url |-> <<>>, custom_host_header |-> None]

HttpInit == exchange = NewExchange

\* the most calls of start and stop made on the manager
MaxOps == 4

\* FrpsManager.__init__: no process is tracked; procs are the processes
\* spawned so far and configured tells whether the binary is there
NewManager ==
    [configured |-> TRUE, process |-> 0, procs |-> <<>>, calls |-> 0,
     last |-> [op |-> "init", started |-> FALSE, reason |-> "",
               signals |-> <<>>, raised |-> FALSE]]

FrpsInit == frps = NewManager

\* FrpSupervisor.__init__: no client is tracked; frpc_processes keeps the
\* dict's insertion order, cprocs are the frpc processes spawned so far and
\* files the config files that exist
NewSupervisor ==
    [pc |-> "new", frpc_configs |-> <<>>, frpc_available |-> TRUE, files |-> {},
     frpc_processes |-> <<>>, cprocs |-> <<>>,
     frps_launch_result |-> NewManager.last, calls |-> 0,
     last |-> [op |-> "init", raised |-> FALSE, failing |-> {}, events |-> <<>>]]

SupInit == sup = NewSupervisor

\* a request to the dashboard before it arrives
NewPage ==
    [pc |-> "new", room_code |-> None, status_reply |-> NoReply,
     commits_reply |-> NoReply, status_code |-> 0, html |-> <<>>,
     context |-> [room_code |-> None, message |-> "", participants_html |-> <<>>,
                  commits_html |-> <<>>],
     headers |-> <<>>]

DashInit == page = NewPage

\* no validator has been called
ProbeInit == probe = [op |-> "none", input |-> <<>>, answer |-> Invalid]

\* src/admin_cli.py: no command has run.  code is the exit code, answered
\* the status code of the command's first request (0: no answer), rows the
\* table rows printed, in order
NewCli ==
    [op |-> "none", code |-> 0, answered |-> 0, status_data |-> <<>>,
     listed |-> <<>>, participants |-> <<>>, commits |-> <<>>,
     rooms |-> <<>>, rows |-> <<>>]

CliInit == cli = NewCli

\* the most create-room requests handled at the same time
MaxCreates == 3

\* a request thread before its request arrives
NoCreate ==
    [pc |-> "idle", room_code |-> None, developer_id |-> None,
     subdomain_url |-> <<>>, code |-> 0]

\* no create-room request is being handled
RaceInit == creates = [k \in 1..MaxCreates |-> NoCreate]

Init ==
    /\ BackendInit
    /\ HubInit
    /\ WsmInit
    /\ HttpInit
    /\ FrpsInit
    /\ SupInit
    /\ ProbeInit
    /\ DashInit
    /\ CliInit
    /\ RaceInit

CreateRoom ==
    \E data \in CreateBodies :
        Handle("create_room", NamedRoom(data), NamedDeveloper(data),
               create_room(rooms, data))

JoinRoom ==
    \E data \in JoinBodies :
        Handle("join_room", NamedRoom(data), NamedDeveloper(data),
               join_room(rooms, data))

LeaveRoom ==
    \E data \in LeaveBodies :
        Handle("leave_room", NamedRoom(data), NamedDeveloper(data),
               leave_room(rooms, data))

\* an accepted commit is taken only while the room holds fewer than MaxCommits
ReportCommit ==
    \E data \in CommitBodies, now \in Timestamps :
        LET r == report_commit(rooms, data, now)
        IN  /\ r.code = 200 => Len(rooms[NamedRoom(data)].commits) < MaxCommits
            /\ Handle("report_commit", NamedRoom(data), NamedDeveloper(data), r)

GetActiveUrl ==
    \E room \in RawRoomCodes :
        Handle("get_active_url", NamedPath(room), None, get_active_url(rooms, room))

GetRoomStatus ==
    \E room \in RawRoomCodes :
        Handle("get_room_status", NamedPath(room), None, get_room_status(rooms, room))

GetRoomCommits ==
    \E room \in PathRoomCodes :
        Handle("get_room_commits", NamedPath(room), None, get_room_commits(rooms, room))

ListAllRooms ==
    \E headers \in AuthHeaders :
        Handle("list_all_rooms", None, None, list_all_rooms(rooms, headers))

DeleteRoom ==
    \E headers \in AuthHeaders, room \in PathRoomCodes :
        Handle("delete_room", NamedPath(room), None, delete_room(rooms, headers, room))

HealthCheck ==
    Handle("health_check", None, None, health_check(rooms))

Next ==
    \/ CreateRoom
    \/ JoinRoom
    \/ LeaveRoom
    \/ ReportCommit
    \/ GetActiveUrl
    \/ GetRoomStatus
    \/ GetRoomCommits
    \/ ListAllRooms
    \/ DeleteRoom
    \/ HealthCheck

Spec == Init /\ [][Next]_vars

-----------------------------------------------------------------------------
(* Properties of the backend.                                              *)

\* a participant value counts as connected: a bare URL string always, a
\* dict by its connected flag
CountsAsConnected(info) == (~info.is_dict) \/ info.connected

MaxOf(S) == CHOOSE x \in S : \A y \in S : y <= x

MinOf(S) == CHOOSE x \in S : \A y \in S : x <= y

\* the developer the resolution rule names for a room, stated without loops
ResolvedByRule(room) ==
    LET P == room.participants
        C == room.commits
        ConnectedKey(d) ==
            \E j \in DOMAIN P : P[j].developer_id = d /\ CountsAsConnected(P[j].info)
        hits      == {i \in DOMAIN C : ConnectedKey(C[i].developer_id)}
        connected == {j \in DOMAIN P : CountsAsConnected(P[j].info)}
    IN  IF hits # {} THEN C[MaxOf(hits)].developer_id
        ELSE IF connected # {} THEN P[MinOf(connected)].developer_id
        ELSE IF P # <<>> THEN P[1].developer_id
        ELSE None

\* C1: in every reachable room state the active developer resolved by the
\* status endpoint and by get-active-url is the committer of the newest
\* commit whose committer is a connected participant; failing that the first
\* connected participant in insertion order; failing that the first
\* participant; and None only for a room without participants.  A bare-string
\* participant counts as connected.
C1_ActiveDeveloperResolution ==
    \A r \in DOMAIN rooms :
        /\ get_room_status(rooms, r).body.active_developer = ResolvedByRule(rooms[r])
        /\ url_active_developer(rooms[r]) = ResolvedByRule(rooms[r])
        /\ ResolvedByRule(rooms[r]) = None => rooms[r].participants = <<>>

\* C1 witness: status was just answered for a room whose newest committer has
\* left, whose older committer is connected and is the one reported
C1_Witness ==
    /\ last.op = "get_room_status" /\ last.code = 200
    /\ last.room_code \in DOMAIN rooms
    /\ LET room == rooms[last.room_code]
           C    == room.commits
       IN  /\ Len(C) = 2
           /\ C[1].developer_id # C[2].developer_id
           /\ ~CountsAsConnected(GetItem(room.participants, C[2].developer_id))
           /\ CountsAsConnected(GetItem(room.participants, C[1].developer_id))
           /\ last.body.active_developer = C[1].developer_id

\* the entry of developer d in a status answer's participants list
StatusEntry(body, d) ==
    body.participants[CHOOSE i \in DOMAIN body.participants :
                          body.participants[i].developer_id = d]

\* C2: for every existing room, get-active-url resolves the developer that
\* the status endpoint reports as active_developer, and the URL it answers
\* encodes that developer's subdomain URL as status lists it.
C2_SameDeveloperInStatusAndActiveUrl ==
    \A r \in DOMAIN rooms :
        LET status == get_room_status(rooms, r).body
            answer == get_active_url(rooms, r)
        IN  /\ answer.code = 200
            /\ url_active_developer(rooms[r]) = status.active_developer
            /\ answer.body.active_url =
                  FRP_PREFIX \o Netloc(StatusEntry(status, status.active_developer).subdomain_url)

\* C2 witness: get-active-url was just answered for a room with commits where
\* the resolved developer is neither the newest committer nor the creator
C2_Witness ==
    /\ last.op = "get_active_url" /\ last.code = 200
    /\ last.room_code \in DOMAIN rooms
    /\ LET room   == rooms[last.room_code]
           C      == room.commits
           status == get_room_status(rooms, last.room_code).body
       IN  /\ C # <<>>
           /\ status.active_developer # C[Len(C)].developer_id
           /\ status.active_developer # room.participants[1].developer_id
           /\ last.body.active_url =
                 FRP_PREFIX \o Netloc(GetItem(room.participants,
                                              status.active_developer).subdomain_url)

\* the commit that ends a list
LastOf(seq) == seq[Len(seq)]

\* C3: every accepted report-commit appends the commit and then fires exactly
\* one notification: an active-developer change {room_code, active_developer
\* = committer} if the room had no commit or its last commit was by another
\* developer, else a room update.
C3_CommitNotification ==
    [][ (last'.op = "report_commit" /\ last'.code = 200) =>
          LET rc     == last'.room_code
              d      == last'.developer_id
              before == rooms[rc].commits
              after  == rooms'[rc].commits
              fx     == last'.effects
          IN  /\ Len(after) = Len(before) + 1
              /\ SubSeq(after, 1, Len(before)) = before
              /\ LastOf(after).developer_id = d
              /\ Len(fx) = 2
              /\ fx[1] = [kind |-> "append", room_code |-> rc, commit |-> LastOf(after)]
              /\ fx[2].kind = "notify"
              /\ fx[2].json =
                    IF before = <<>> \/ LastOf(before).developer_id # d
                    THEN [room_code |-> rc, active_developer |-> d]
                    ELSE [room_code |-> rc, event_type |-> "room_update"]
      ]_vars

\* C3 witness: a commit by the developer of the previous commit was just
\* accepted and a room update was fired for it
C3_Witness ==
    /\ last.op = "report_commit" /\ last.code = 200
    /\ LET C == rooms[last.room_code].commits
       IN  /\ Len(C) = 2
           /\ C[1].developer_id = C[2].developer_id
           /\ last.effects[2].json = [room_code |-> last.room_code,
                                      event_type |-> "room_update"]

\* a create-room body whose three fields are present and valid
WellFormedCreate(data) ==
    /\ {"project_name", "developer_id", "subdomain_url"} \subseteq DOMAIN data
    /\ project_name_of(data.project_name).ok
    /\ developer_id_of(data.developer_id).ok
    /\ subdomain_url_of(data.subdomain_url).ok

\* C4: a well-formed create-room whose derived room code is in the room
\* table answers 409 and changes nothing; one whose code is not in the table
\* answers 201 and adds a room with the caller as only participant and no
\* commits.
C4_CreateConflict ==
    \A data \in CreateBodies :
        WellFormedCreate(data) =>
            LET r == create_room(rooms, data)
                c == project_name_of(data.project_name).value
                d == developer_id_of(data.developer_id).value
            IN  IF c \in DOMAIN rooms
                THEN r.code = 409 /\ r.rooms = rooms /\ r.effects = <<>>
                ELSE /\ r.code = 201
                     /\ DOMAIN r.rooms = DOMAIN rooms \cup {c}
                     /\ \A o \in DOMAIN rooms : r.rooms[o] = rooms[o]
                     /\ Len(r.rooms[c].participants) = 1
                     /\ r.rooms[c].participants[1].developer_id = d
                     /\ r.rooms[c].commits = <<>>

\* C4 witness: create-room was just answered 409 for a room that has two
\* participants and a commit, by a developer other than its creator
C4_Witness ==
    /\ last.op = "create_room" /\ last.code = 409
    /\ last.room_code \in DOMAIN rooms
    /\ LET room == rooms[last.room_code]
       IN  /\ Len(room.participants) = 2
           /\ room.commits # <<>>
           /\ room.participants[1].developer_id # last.developer_id

\* a join body whose three fields are present and valid
WellFormedJoin(data) ==
    /\ {"room_code", "developer_id", "subdomain_url"} \subseteq DOMAIN data
    /\ room_code_of(data.room_code).ok
    /\ developer_id_of(data.developer_id).ok
    /\ subdomain_url_of(data.subdomain_url).ok

\* a leave body whose two fields are present and valid
WellFormedLeave(data) ==
    /\ {"room_code", "developer_id"} \subseteq DOMAIN data
    /\ room_code_of(data.room_code).ok
    /\ developer_id_of(data.developer_id).ok

\* status, right after a successful leave, reports the developer
\* disconnected with the URL it reported before
LeaveObserved ==
    \A data \in LeaveBodies :
        LET r == leave_room(rooms, data)
        IN  r.code = 200 =>
              LET rc == room_code_of(data.room_code).value
                  d  == developer_id_of(data.developer_id).value
                  before == StatusEntry(get_room_status(rooms, rc).body, d)
                  after  == StatusEntry(get_room_status(r.rooms, rc).body, d)
              IN  after = [developer_id |-> d, subdomain_url |-> before.subdomain_url,
                           connected |-> FALSE]

\* status, right after a successful join or rejoin, reports the developer
\* connected with the URL url_of(the URL sent)
JoinObserved(url_of(_)) ==
    \A data \in JoinBodies :
        LET r == join_room(rooms, data)
        IN  r.code = 200 =>
              LET rc == room_code_of(data.room_code).value
                  d  == developer_id_of(data.developer_id).value
                  after == StatusEntry(get_room_status(r.rooms, rc).body, d)
              IN  after = [developer_id |-> d, subdomain_url |-> url_of(data.subdomain_url),
                           connected |-> TRUE]

AsSent(url) == url

\* the URL sent with surrounding whitespace and trailing slashes removed
AsStored(url) == RStrip(Strip(url, Whitespace), {"/"})

\* C5 as stated: after a leave status reports connected=false and the same
\* URL; after a join with URL u' status reports connected=true and u'.
C5_AsStated == LeaveObserved /\ JoinObserved(AsSent)

\* C5 amended: after a leave status reports connected=false and the same
\* URL; after a join with URL u' status reports connected=true and u' with
\* surrounding whitespace and trailing slashes removed.
C5_LeaveThenRejoin == LeaveObserved /\ JoinObserved(AsStored)

\* C5 witness: the creator (stored as a bare string) has just left and is
\* reported disconnected, and a rejoin that changes its URL is answered
\* "reconnected"
C5_Witness ==
    /\ last.op = "leave_room" /\ last.code = 200
    /\ last.room_code \in DOMAIN rooms
    /\ LET rc    == last.room_code
           d     == last.developer_id
           entry == StatusEntry(get_room_status(rooms, rc).body, d)
       IN  /\ rooms[rc].participants[1].developer_id = d
           /\ ~entry.connected
           /\ \E data \in JoinBodies :
                 LET r == join_room(rooms, data)
                 IN  /\ r.code = 200 /\ r.body.status = "reconnected"
                     /\ developer_id_of(data.developer_id).value = d
                     /\ LET after == StatusEntry(get_room_status(r.rooms, rc).body, d)
                        IN  after.connected /\ after.subdomain_url # entry.subdomain_url

\* the participant's stored value is a bare URL string
IsLegacy(participant) == ~participant.info.is_dict

\* the developers of a room that no reader may pass over: bare strings and
\* structured records marked connected
Online(room) ==
    {room.participants[i].developer_id : i \in
        {j \in DOMAIN room.participants :
            \/ IsLegacy(room.participants[j])
            \/ room.participants[j].info.connected}}

\* what create-room and join store for the caller
C6_StoredShapes ==
    /\ \A data \in CreateBodies :
          LET r == create_room(rooms, data)
          IN  r.code = 201 =>
                r.rooms[project_name_of(data.project_name).value].participants[1].info
                  = [is_dict |-> FALSE, subdomain_url |-> AsStored(data.subdomain_url)]
    /\ \A data \in JoinBodies :
          LET r == join_room(rooms, data)
          IN  r.code = 200 =>
                LET P == r.rooms[room_code_of(data.room_code).value].participants
                    d == developer_id_of(data.developer_id).value
                IN  \E i \in DOMAIN P :
                      /\ P[i].developer_id = d
                      /\ P[i].info = [is_dict |-> TRUE, connected |-> TRUE,
                                      subdomain_url |-> AsStored(data.subdomain_url)]

\* how the three readers see a bare-string entry
C6_ReadAsConnected ==
    \A r \in DOMAIN rooms :
        LET room   == rooms[r]
            P      == room.participants
            C      == room.commits
            status == get_room_status(rooms, r).body
        IN  \A i \in DOMAIN P :
              IsLegacy(P[i]) =>
                LET d == P[i].developer_id
                    chosen == \/ (C # <<>> /\ LastOf(C).developer_id = d)
                              \/ /\ \A k \in DOMAIN C : C[k].developer_id \notin Online(room)
                                 /\ \A j \in 1..(i - 1) : P[j].developer_id \notin Online(room)
                IN  /\ status.participants[i] =
                         [developer_id |-> d, subdomain_url |-> P[i].info.subdomain_url,
                          connected |-> TRUE]
                    /\ chosen => /\ status.active_developer = d
                                 /\ url_active_developer(room) = d
                                 /\ get_active_url(rooms, r).body.active_url =
                                       FRP_PREFIX \o Netloc(P[i].info.subdomain_url)

\* a bare-string entry stays as it is, or becomes structured by a leave or a
\* join of that developer
C6_BecomesStructured ==
    \A r \in DOMAIN rooms \cap DOMAIN rooms' :
        \A i \in DOMAIN rooms[r].participants :
            LET was == rooms[r].participants[i]
                is  == rooms'[r].participants[i]
            IN  (IsLegacy(was) /\ is # was) =>
                  /\ last'.room_code = r /\ last'.developer_id = was.developer_id
                  /\ last'.code = 200
                  /\ is.developer_id = was.developer_id
                  /\ \/ /\ last'.op = "leave_room"
                        /\ is.info = [is_dict |-> TRUE, connected |-> FALSE,
                                      subdomain_url |-> was.info.subdomain_url]
                     \/ /\ last'.op = "join_room"
                        /\ is.info.is_dict /\ is.info.connected

\* C6: create-room stores the creator as a bare URL string and join stores a
\* structured record; the status list and the resolution of status and of
\* get-active-url treat a bare string as connected; a bare string becomes
\* structured only through leave (connected=false, same URL) or rejoin.
C6_DualParticipantShape ==
    /\ [](C6_StoredShapes /\ C6_ReadAsConnected)
    /\ [][C6_BecomesStructured]_vars

\* C6 witness: status was just answered for a room whose creator is a bare
\* string and whose joiner is a structured record, both reported connected,
\* the creator resolved as active developer by its commit
C6_Witness ==
    /\ last.op = "get_room_status" /\ last.code = 200
    /\ last.room_code \in DOMAIN rooms
    /\ LET P == rooms[last.room_code].participants
           C == rooms[last.room_code].commits
       IN  /\ Len(P) = 2
           /\ IsLegacy(P[1]) /\ ~IsLegacy(P[2])
           /\ last.body.participants[1].connected
           /\ last.body.participants[2].connected
           /\ Len(C) = 2
           /\ C[1].developer_id = P[2].developer_id
           /\ C[2].developer_id = P[1].developer_id
           /\ last.body.active_developer = P[1].developer_id

\* seq is the beginning of longer
IsPrefix(seq, longer) ==
    /\ Len(seq) <= Len(longer)
    /\ SubSeq(longer, 1, Len(seq)) = seq

\* list-commits answers the stored list
C7_ListedInOrder ==
    \A r \in DOMAIN rooms :
        LET answer == get_room_commits(rooms, r)
        IN  /\ answer.code = 200
            /\ answer.body.commits = rooms[r].commits

\* one step keeps every room's commits as a prefix, or deletes the room
C7_AppendOrDiscard ==
    \A r \in DOMAIN rooms :
        IF r \in DOMAIN rooms'
        THEN /\ IsPrefix(rooms[r].commits, rooms'[r].commits)
             /\ Len(rooms'[r].commits) <= Len(rooms[r].commits) + 1
             /\ rooms'[r].commits # rooms[r].commits =>
                   last'.op = "report_commit" /\ last'.code = 200
        ELSE last'.op = "delete_room" /\ last'.code = 200 /\ last'.room_code = r

\* C7: while a room exists its commit list at an earlier point is a prefix of
\* the list at any later point, list-commits answers the list in that order,
\* and the list goes away only when the room is deleted.
C7_CommitsAppendOnly ==
    /\ []C7_ListedInOrder
    /\ [][C7_AppendOrDiscard]_vars

\* C7 witness: a second commit, by another developer than the first, was just
\* appended
C7_Witness ==
    /\ last.op = "report_commit" /\ last.code = 200
    /\ LET C == rooms[last.room_code].commits
       IN  /\ Len(C) = 2
           /\ C[1].developer_id # C[2].developer_id
           /\ C[2].developer_id = last.developer_id

\* C8: while a room exists no participant key is removed and the keys keep
\* their positions: a leave only sets connected to false at the leaver's
\* position, a rejoin overwrites the value at the rejoiner's position, and
\* participants go away only when the room is deleted.
C8_ParticipantKeysStay ==
    [][ \A r \in DOMAIN rooms :
          IF r \in DOMAIN rooms'
          THEN LET P  == rooms[r].participants
                   Q  == rooms'[r].participants
                   d  == last'.developer_id
                   on == last'.code = 200 /\ last'.room_code = r
               IN  /\ Len(P) <= Len(Q)
                   /\ \A i \in DOMAIN P : Q[i].developer_id = P[i].developer_id
                   /\ (on /\ last'.op = "leave_room") =>
                         /\ Len(Q) = Len(P)
                         /\ \A i \in DOMAIN P :
                               IF P[i].developer_id = d
                               THEN Q[i].info = [is_dict |-> TRUE, connected |-> FALSE,
                                                 subdomain_url |-> P[i].info.subdomain_url]
                               ELSE Q[i] = P[i]
                   /\ (on /\ last'.op = "join_room" /\ d \in Range(Keys(P))) =>
                         /\ Len(Q) = Len(P)
                         /\ \A i \in DOMAIN P :
                               IF P[i].developer_id = d
                               THEN Q[i].info.is_dict /\ Q[i].info.connected
                               ELSE Q[i] = P[i]
          ELSE last'.op = "delete_room" /\ last'.code = 200 /\ last'.room_code = r
      ]_vars

\* C8 witness: the first of two participants just left and is still first,
\* disconnected, ahead of the connected second one
C8_Witness ==
    /\ last.op = "leave_room" /\ last.code = 200
    /\ last.room_code \in DOMAIN rooms
    /\ LET P == rooms[last.room_code].participants
       IN  /\ Len(P) = 2
           /\ P[1].developer_id = last.developer_id
           /\ P[1].info.is_dict /\ ~P[1].info.connected
           /\ P[2].info.connected

\* a report-commit body whose five fields are present and valid
WellFormedCommit(data) ==
    /\ {"room_code", "developer_id", "commit_hash", "branch", "commit_message"}
          \subseteq DOMAIN data
    /\ room_code_of(data.room_code).ok
    /\ developer_id_of(data.developer_id).ok
    /\ commit_hash_of(data.commit_hash).ok
    /\ branch_of(data.branch).ok
    /\ commit_message_of(data.commit_message).ok

\* C9: a well-formed report-commit is answered 404 when the room does not
\* exist and 403 when the developer is not a participant of the room; in
\* both cases nothing is appended and no notification is fired.
C9_CommitRejected ==
    \A data \in CommitBodies : \A now \in Timestamps :
        WellFormedCommit(data) =>
            LET r  == report_commit(rooms, data, now)
                rc == room_code_of(data.room_code).value
                d  == developer_id_of(data.developer_id).value
            IN  /\ rc \notin DOMAIN rooms =>
                      r.code = 404 /\ r.rooms = rooms /\ r.effects = <<>>
                /\ (rc \in DOMAIN rooms /\
                    \A i \in DOMAIN rooms[rc].participants :
                        rooms[rc].participants[i].developer_id # d) =>
                      r.code = 403 /\ r.rooms = rooms /\ r.effects = <<>>

\* C9 witness: a commit of a developer who never joined was just refused
\* with 403 in a room that has commits
C9_Witness ==
    /\ last.op = "report_commit" /\ last.code = 403
    /\ last.room_code \in DOMAIN rooms
    /\ rooms[last.room_code].commits # <<>>
    /\ \A i \in DOMAIN rooms[last.room_code].participants :
          rooms[last.room_code].participants[i].developer_id # last.developer_id

\* an authorised delete of an existing room is accepted
C10_DeleteAccepted ==
    \A r \in DOMAIN rooms :
        delete_room(rooms, [authorization |-> <<"Bearer ", ADMIN_API_KEY>>, api_key |-> ""], r).code = 200

\* every endpoint's answer for a room code that is not in the table
C10_AbsentRoom ==
    \A raw \in PathRoomCodes \cup RawRoomCodes :
        (room_code_of(raw).ok /\ room_code_of(raw).value \notin DOMAIN rooms) =>
            LET rc == room_code_of(raw).value
            IN  /\ get_room_status(rooms, raw).code = 404
                /\ get_room_commits(rooms, raw).code = 404
                /\ get_active_url(rooms, raw).code = 200
                /\ get_active_url(rooms, raw).body.active_url = None
                /\ \A data \in JoinBodies :
                      (WellFormedJoin(data) /\ room_code_of(data.room_code).value = rc) =>
                         LET r == join_room(rooms, data)
                         IN  r.code = 404 /\ r.rooms = rooms
                /\ \A data \in LeaveBodies :
                      (WellFormedLeave(data) /\ room_code_of(data.room_code).value = rc) =>
                         LET r == leave_room(rooms, data)
                         IN  r.code = 404 /\ r.rooms = rooms
                /\ \A data \in CommitBodies : \A now \in Timestamps :
                      (WellFormedCommit(data) /\ room_code_of(data.room_code).value = rc) =>
                         LET r == report_commit(rooms, data, now)
                         IN  r.code = 404 /\ r.rooms = rooms

\* a successful delete removes exactly its room and fires one room update; a
\* room enters the table only by create-room, with its creator and no commit
C10_DeleteThenCreate ==
    /\ (last'.op = "delete_room" /\ last'.code = 200) =>
          /\ last'.room_code \in DOMAIN rooms
          /\ DOMAIN rooms' = DOMAIN rooms \ {last'.room_code}
          /\ \A o \in DOMAIN rooms' : rooms'[o] = rooms[o]
          /\ last'.effects = <<[kind |-> "notify",
                                json |-> [room_code |-> last'.room_code,
                                          event_type |-> "room_update"]]>>
    /\ \A r \in DOMAIN rooms' \ DOMAIN rooms :
          /\ last'.op = "create_room" /\ last'.code = 201 /\ last'.room_code = r
          /\ Len(rooms'[r].participants) = 1
          /\ rooms'[r].participants[1].developer_id = last'.developer_id
          /\ rooms'[r].commits = <<>>

\* C10: an admin delete removes the room and fires one room-update
\* notification; while the room is absent status, list-commits, join, leave
\* and report-commit answer 404 and get-active-url answers no URL; the room
\* comes back only by create-room, with one participant and no commits.
C10_DeleteRemovesRoom ==
    /\ [](C10_DeleteAccepted /\ C10_AbsentRoom)
    /\ [][C10_DeleteThenCreate]_vars

\* C10 witness: a delete was just accepted, its room is gone from the table
\* and one room update was fired for it
C10_Witness ==
    /\ last.op = "delete_room" /\ last.code = 200
    /\ last.room_code \notin DOMAIN rooms
    /\ Len(last.effects) = 1
    /\ get_room_status(rooms, last.room_code).code = 404

\* C34: whenever report-commit fires an active-developer-change
\* notification, the developer it names is the one the status endpoint
\* resolves for the room right after the commit was appended, also when the
\* committer has left the room.
C34_NotifiedDeveloperIsResolved ==
    (last.op = "report_commit" /\ last.code = 200) =>
        \A i \in DOMAIN last.notifications :
            "active_developer" \in DOMAIN last.notifications[i].json =>
                /\ last.notifications[i].json.room_code = last.room_code
                /\ last.notifications[i].json.active_developer
                      = get_room_status(rooms, last.room_code).body.active_developer

\* the admin's Authorization header
AdminHeaders == [authorization |-> <<"Bearer ", ADMIN_API_KEY>>, api_key |-> ""]

\* C35: every room has at least one participant and its first participant
\* is the developer that created it; so status reports an active developer
\* and get-active-url a URL for every existing room, and the admin list
\* reports no room with an empty participant list.
C35_RoomsKeepTheirCreator ==
    /\ [](\A c \in DOMAIN rooms :
            /\ rooms[c].participants # <<>>
            /\ get_room_status(rooms, c).code = 200
            /\ ~Falsy(get_room_status(rooms, c).body.active_developer)
            /\ ~Falsy(get_active_url(rooms, c).body.active_url)
            /\ \A listed \in list_all_rooms(rooms, AdminHeaders).body.rooms :
                  listed.participants # <<>>)
    /\ [][\A c \in DOMAIN rooms' :
            IF c \in DOMAIN rooms
            THEN rooms'[c].participants[1].developer_id
                    = rooms[c].participants[1].developer_id
            ELSE /\ last'.op = "create_room" /\ last'.code = 201
                 /\ rooms'[c].participants[1].developer_id = last'.developer_id]_vars

\* C35 witness: the creator, first of two participants, has left the room
\* and the other has left too; status still names the creator
C35_Witness ==
    /\ last.op = "leave_room" /\ last.code = 200
    /\ LET P == rooms[last.room_code].participants
       IN  /\ Len(P) = 2
           /\ \A i \in DOMAIN P : ~is_connected(P[i].info)
           /\ get_room_status(rooms, last.room_code).body.active_developer
                 = P[1].developer_id

\* the developer the room resolves to is among its participants, is
\* connected if anybody is, and else is the first participant
ResolvedWell(participants, active) ==
    /\ HasKey(participants, active)
    /\ (\E i \in DOMAIN participants : is_connected(participants[i].info)) =>
          is_connected(GetItem(participants, active))
    /\ ~is_connected(GetItem(participants, active)) =>
          active = participants[1].developer_id

\* C36: in every reachable room state the resolved active developer is a
\* key of the room's participants; when at least one participant is
\* connected it is a connected one; a disconnected participant is resolved
\* only when all are disconnected and it is the first in insertion order.
C36_ResolvedAmongParticipants ==
    \A c \in DOMAIN rooms :
        /\ ResolvedWell(rooms[c].participants, status_active_developer(rooms[c]))
        /\ ResolvedWell(rooms[c].participants, url_active_developer(rooms[c]))
        /\ get_room_status(rooms, c).body.active_developer
              = status_active_developer(rooms[c])

\* C36 witness: the first participant has left, the second is connected,
\* nobody has committed, and the second is resolved
C36_Witness ==
    \E c \in DOMAIN rooms :
        LET P == rooms[c].participants
        IN  /\ Len(P) = 2 /\ rooms[c].commits = <<>>
            /\ ~is_connected(P[1].info) /\ is_connected(P[2].info)
            /\ status_active_developer(rooms[c]) = P[2].developer_id

\* C37: a commit reported by a participant that has left the room is
\* accepted and appended, and the room's resolved active developer after
\* the commit is the one before it.
C37_CommitAfterLeaveKeepsActive ==
    [][(/\ last'.op = "report_commit" /\ last'.code = 200
        /\ rooms' # rooms
        /\ ~is_connected(GetItem(rooms[last'.room_code].participants,
                                  last'.developer_id))) =>
          LET before == rooms[last'.room_code]
              after  == rooms'[last'.room_code]
          IN  /\ Len(after.commits) = Len(before.commits) + 1
              /\ LastOf(after.commits).developer_id = last'.developer_id
              /\ status_active_developer(after) = status_active_developer(before)
              /\ get_room_status(rooms', last'.room_code).body.active_developer
                    = get_room_status(rooms, last'.room_code).body.active_developer
       ]_vars

\* C37 witness: a developer that has left just committed, and the room
\* resolves to another developer
C37_Witness ==
    /\ last.op = "report_commit" /\ last.code = 200
    /\ LET r == rooms[last.room_code]
       IN  /\ LastOf(r.commits).developer_id = last.developer_id
           /\ ~is_connected(GetItem(r.participants, last.developer_id))
           /\ status_active_developer(r) # last.developer_id

\* a second project, so that the table can hold two rooms
S_Site == <<"S","i","t","e">>

S_site == <<"s","i","t","e">>

\* POST /rooms/create for the second project
CreateOther ==
    LET data == [project_name |-> S_Site, developer_id |-> S_bo, subdomain_url |-> U_bo]
    IN  Handle("create_room", NamedRoom(data), NamedDeveloper(data),
               create_room(rooms, data))

\* DELETE /admin/rooms/site by the admin
DeleteOther ==
    Handle("delete_room", NamedPath(S_site), None,
           delete_room(rooms, [authorization |-> <<"Bearer ", ADMIN_API_KEY>>,
                               api_key |-> ""], S_site))

\* the backend with up to two rooms
FrameNext ==
    \/ Next
    \/ CreateOther
    \/ DeleteOther

FrameSpec == Init /\ [][FrameNext]_vars

\* the endpoints that only read
ReadOps ==
    {"get_active_url", "get_room_status", "get_room_commits", "list_all_rooms",
     "health_check"}

\* C39: a request answered with a 4xx status leaves the whole room table
\* unchanged and fires no notification; the read endpoints never change the
\* table; a successful mutating request changes only the room it names.
C39_FrameOnFailureAndReads ==
    [][/\ last'.code \in 400..499 =>
            /\ rooms' = rooms
            /\ last'.effects = <<>>
            /\ last'.notifications = <<>>
       /\ last'.op \in ReadOps => rooms' = rooms
       /\ \A c \in DOMAIN rooms \cup DOMAIN rooms' :
            c # last'.room_code =>
                /\ c \in DOMAIN rooms /\ c \in DOMAIN rooms'
                /\ rooms'[c] = rooms[c]
      ]_vars

\* C39 witness: with two rooms in the table, a commit to one of them was
\* refused with 403
C39_Witness ==
    /\ Cardinality(DOMAIN rooms) = 2
    /\ last.op = "report_commit" /\ last.code = 403
    /\ last.room_code \in DOMAIN rooms

\* the endpoints that notify the proxy
Notifying == {"join_room", "leave_room", "report_commit", "delete_room"}

\* what the notifying endpoints compute on a room table, for every request
NotifyingResults(rs) ==
    {join_room(rs, data) : data \in JoinBodies}
      \cup {leave_room(rs, data) : data \in LeaveBodies}
      \cup {report_commit(rs, data, "now") : data \in CommitBodies}
      \cup {delete_room(rs, headers, room) :
                headers \in AuthHeaders, room \in PathRoomCodes}

GateRequests ==
    [authorization : {<<>>, <<"Bearer ", "">>, <<"Bearer ", "wrong">>,
                      <<"Bearer ", ADMIN_API_KEY>>, <<"Basic ", ADMIN_API_KEY>>},
     api_key : {"", "wrong", ADMIN_API_KEY}]

\* the header is of the form "Bearer <rest>"
IsBearer(headers) ==
    headers.authorization # <<>> /\ headers.authorization[1] = "Bearer "

\* the request carries no token at all
NoToken(headers) == ~IsBearer(headers) /\ headers.api_key = ""

\* the request carries a token, and it is not the admin secret
WrongToken(headers) ==
    \/ IsBearer(headers) /\ headers.authorization[2] \notin {"", ADMIN_API_KEY}
    \/ ~IsBearer(headers) /\ headers.api_key \notin {"", ADMIN_API_KEY}

\* C11: an admin list or admin delete without a token answers 401 and one
\* with a token that is not the admin secret answers 403; a 401 or 403
\* leaves the room table unchanged, fires no notification, and is the same
\* answer whether or not the named room exists.
C11_AdminGate ==
    \A headers \in GateRequests :
        LET listed == list_all_rooms(rooms, headers)
        IN  /\ NoToken(headers) => listed.code = 401
            /\ WrongToken(headers) => listed.code = 403
            /\ listed.code \in {401, 403} =>
                  /\ listed.rooms = rooms /\ listed.effects = <<>>
                  /\ listed.body = list_all_rooms(<<>>, headers).body
            /\ \A room \in PathRoomCodes :
                  LET deleted == delete_room(rooms, headers, room)
                      nowhere == delete_room(<<>>, headers, room)
                  IN  /\ NoToken(headers) => deleted.code = 401
                      /\ WrongToken(headers) => deleted.code = 403
                      /\ deleted.code \in {401, 403} =>
                            /\ deleted.rooms = rooms /\ deleted.effects = <<>>
                            /\ deleted.code = nowhere.code
                            /\ deleted.body = nowhere.body

\* C11 witness: a delete naming an existing room that holds commits was just
\* refused with 403, and the room is still there
C11_Witness ==
    /\ last.op = "delete_room" /\ last.code = 403
    /\ last.room_code \in DOMAIN rooms
    /\ rooms[last.room_code].commits # <<>>
    /\ last.effects = <<>>

\* host[:port] of a stored URL: what stands between "http://" or "https://"
\* and the first "/" after it
Authority(url) ==
    LET from    == IF url[5] = ":" THEN 8 ELSE 9
        slashes == {i \in from..Len(url) : url[i] = "/"}
        upto    == IF slashes = {} THEN Len(url)
                   ELSE (CHOOSE i \in slashes : \A k \in slashes : i <= k) - 1
    IN  SubSeq(url, from, upto)

\* C12: when get-active-url resolves a developer whose stored URL is not
\* empty it answers "http://127.0.0.1:7101|Host:" followed by the host[:port]
\* of that URL, and nothing of the URL's scheme or path.
C12_ActiveUrlLiteral ==
    \A r \in DOMAIN rooms :
        LET d == url_active_developer(rooms[r])
            P == rooms[r].participants
        IN  \A i \in DOMAIN P :
              (P[i].developer_id = d /\ P[i].info.subdomain_url # <<>>) =>
                 get_active_url(rooms, r).body.active_url =
                    <<"h","t","t","p",":","/","/","1","2","7",".","0",".","0",".","1",
                      ":","7","1","0","1","|","H","o","s","t",":">>
                       \o Authority(P[i].info.subdomain_url)

\* C12 witness: get-active-url was just answered for a developer whose
\* stored URL has a port and a path, with the host and port alone
C12_Witness ==
    /\ last.op = "get_active_url" /\ last.code = 200
    /\ last.room_code \in DOMAIN rooms
    /\ LET P == rooms[last.room_code].participants
           d == url_active_developer(rooms[last.room_code])
       IN  \E i \in DOMAIN P :
              /\ P[i].developer_id = d
              /\ P[i].info.subdomain_url = U_al_port \o <<"/","a">>
              /\ last.body.active_url = FRP_PREFIX \o <<"d","e","v","-","a","l",".","i","o",":","8","0">>

-----------------------------------------------------------------------------
(* src/proxy/app.py: the notification hub.                                 *)
(*                                                                         *)
(* notification_clients : room_code -> list of WebSockets, the dict        *)
(* _notification_clients.  sockets[w] is the handler websocket_notifications*)
(* of connection w: pc names the await it is suspended in ("new" before the *)
(* connection arrives, "closed" once the handler returned), open is whether *)
(* the peer still holds the connection, inbox the broadcast messages the   *)
(* peer got (confirmations and pongs are not kept).                        *)
(* notifies[k] is call k of internal_notify_commit: pc "send" while it is  *)
(* suspended in ws.send_json for target, i the position the list iterator  *)
(* reads next, detached whether the list it iterates was deleted from the  *)
(* dict meanwhile (the iterator keeps the deleted, empty list object).     *)
(* audience (the list when the call began) and the field call of a message *)
(* record which call sent what; the code keeps neither.                    *)

\* dict.get(field)
Get(data, field) == IF field \in DOMAIN data THEN data[field] ELSE None

\* list.remove(x): the list without the first x
RECURSIVE Remove(_, _)
Remove(list, x) ==
    IF list = <<>> THEN <<>>
    ELSE IF Head(list) = x THEN Tail(list)
    ELSE <<Head(list)>> \o Remove(Tail(list), x)

\* the subscription messages each dashboard may send; "X" is lower-cased by
\* the hub
SubscribeMessages ==
    [w \in Sockets |->
        IF w = "w3"
        THEN {[room |-> <<"y">>], [room |-> <<>>], [type |-> "subscribe"]}
        ELSE {[room |-> <<"X">>]}]

\* the bodies the backend posts to /internal/notify-commit, and two that
\* lack a field
NotifyBodies ==
    {NotifyRoomUpdate(<<"x">>).json, NotifyActive(<<"x">>, S_al).json,
     NotifyRoomUpdate(<<"y">>).json,
     [room_code |-> <<"x">>], [event_type |-> "room_update"]}

\* mutant: the finally block leaves the dict as it is
unregister_nothing(clients, room_code, websocket) == clients

\* websocket_notifications, the finally block: the dict after the handler
\* of websocket unregistered it
unregister(clients, room_code, websocket) ==
    IF room_code \notin DOMAIN clients THEN clients
    ELSE IF websocket \notin Range(clients[room_code]) THEN clients
    ELSE LET left == Remove(clients[room_code], websocket)
         IN  IF left = <<>>
             THEN [r \in DOMAIN clients \ {room_code} |-> clients[r]]
             ELSE [clients EXCEPT ![room_code] = left]

\* the calls whose iterator is on a list that clients_after no longer holds
detach(calls, clients_before, clients_after) ==
    [k \in DOMAIN calls |->
        IF /\ calls[k].pc = "send"
           /\ calls[k].room_code \in DOMAIN clients_before
           /\ calls[k].room_code \notin DOMAIN clients_after
        THEN [calls[k] EXCEPT !.detached = TRUE]
        ELSE calls[k]]

\* websocket_notifications returns: the finally block runs
HandlerReturns(w, close_code) ==
    LET after == unregister(notification_clients, sockets[w].room_code, w)
    IN  /\ notification_clients' = after
        /\ notifies' = detach(notifies, notification_clients, after)
        /\ sockets' = [sockets EXCEPT ![w].pc = "closed", ![w].close_code = close_code]
        /\ UNCHANGED active_developer_cache

\* notify_room_clients / notify_room_update, "Clean up disconnected
\* clients": raised when the room's key is gone (KeyError)
RECURSIVE prune(_, _, _)
prune(clients, room_code, disconnected) ==
    IF disconnected = <<>> THEN [clients |-> clients, raised |-> FALSE]
    ELSE IF room_code \notin DOMAIN clients THEN [clients |-> clients, raised |-> TRUE]
    ELSE prune(IF Head(disconnected) \in Range(clients[room_code])
               THEN [clients EXCEPT ![room_code] = Remove(@, Head(disconnected))]
               ELSE clients,
               room_code, Tail(disconnected))

\* notify_room_clients / notify_room_update from the top of the loop "for ws
\* in _notification_clients[room_code]": suspend in the next send, or leave
\* the loop, clean up and answer
broadcast(clients, call) ==
    LET list == IF call.detached THEN <<>> ELSE clients[call.room_code]
    IN  IF call.i <= Len(list)
        THEN [clients |-> clients,
              call |-> [call EXCEPT !.pc = "send", !.target = list[call.i], !.i = @ + 1]]
        ELSE LET cleaned == prune(clients, call.room_code, call.disconnected)
             IN  [clients |-> cleaned.clients,
                  call |-> [call EXCEPT !.pc = "done", !.target = "", !.i = 0,
                                        !.disconnected = <<>>, !.detached = FALSE,
                                        !.code = IF cleaned.raised THEN 500 ELSE 200]]

\* internal_notify_commit up to its first suspension
internal_notify_commit(clients, data) ==
    LET room_code  == Get(data, "room_code")
        event_type == Get(data, "event_type")
        active_developer == IF event_type = "room_update" THEN None
                            ELSE Get(data, "active_developer")
        answered(code) == [NoCall EXCEPT !.pc = "done", !.code = code]
    IN  IF Falsy(room_code) THEN [clients |-> clients, call |-> answered(400)]
        ELSE IF event_type # "room_update" /\ Falsy(active_developer)
        THEN [clients |-> clients, call |-> answered(400)]
        ELSE IF room_code \notin DOMAIN clients
        THEN [clients |-> clients,
              call |-> [answered(200) EXCEPT !.room_code = room_code,
                                             !.active_developer = active_developer]]
        ELSE broadcast(clients,
               [NoCall EXCEPT !.room_code = room_code,
                              !.active_developer = active_developer,
                              !.type = IF event_type = "room_update"
                                       THEN "room_update" ELSE "commit",
                              !.audience = clients[room_code], !.i = 1])

\* notify_room_clients: _active_developer_cache[room_code] = active_developer
cache_after(cache, clients, data) ==
    LET room_code == Get(data, "room_code")
    IN  IF /\ ~Falsy(room_code)
           /\ Get(data, "event_type") # "room_update"
           /\ ~Falsy(Get(data, "active_developer"))
           /\ room_code \in DOMAIN clients
        THEN [r \in DOMAIN cache \cup {room_code} |->
                 IF r = room_code THEN data.active_developer ELSE cache[r]]
        ELSE cache

\* websocket.accept() of a new dashboard connection
WsConnect ==
    \E w \in Sockets :
        /\ sockets[w].pc = "new"
        /\ sockets' = [sockets EXCEPT ![w].pc = "receive_json"]
        /\ UNCHANGED <<notification_clients, active_developer_cache, notifies>>
        /\ UNCHANGED <<backend_vars, wsm_vars, http_vars, frps_vars, sup_vars, probe_vars, dash_vars, cli_vars, race_vars>>

\* receive_json() returns the subscription message
WsSubscribe ==
    \E w \in Sockets :
      \E subscription_msg \in SubscribeMessages[w] :
        /\ sockets[w].pc = "receive_json" /\ sockets[w].open
        /\ LET room == Get(subscription_msg, "room")
               room_code == Lower(room)
           IN  IF Falsy(room)
               THEN HandlerReturns(w, 1011)
               ELSE /\ notification_clients' =
                         [r \in DOMAIN notification_clients \cup {room_code} |->
                             IF r \in DOMAIN notification_clients
                             THEN (IF r = room_code
                                   THEN Append(notification_clients[r], w)
                                   ELSE notification_clients[r])
                             ELSE <<w>>]
                    /\ sockets' = [sockets EXCEPT ![w].pc = "send_subscribed",
                                                  ![w].room_code = room_code]
                    /\ UNCHANGED <<active_developer_cache, notifies>>
        /\ UNCHANGED <<backend_vars, wsm_vars, http_vars, frps_vars, sup_vars, probe_vars, dash_vars, cli_vars, race_vars>>

\* the send the handler of w is suspended in completes: the peer gets the
\* message, or the peer is gone and the send raises or passes unnoticed
WsSent ==
    \E w \in Sockets, raises \in BOOLEAN :
        /\ sockets[w].pc \in {"send_subscribed", "send_pong"}
        /\ sockets[w].open => ~raises
        /\ IF raises
           THEN HandlerReturns(w, 0)
           ELSE /\ sockets' = [sockets EXCEPT ![w].pc = "receive_text"]
                /\ UNCHANGED <<notification_clients, active_developer_cache, notifies>>
        /\ UNCHANGED <<backend_vars, wsm_vars, http_vars, frps_vars, sup_vars, probe_vars, dash_vars, cli_vars, race_vars>>

\* receive_text() returns a keepalive ping
WsPing ==
    \E w \in Sockets :
        /\ sockets[w].pc = "receive_text" /\ sockets[w].open
        /\ sockets' = [sockets EXCEPT ![w].pc = "send_pong"]
        /\ UNCHANGED <<notification_clients, active_developer_cache, notifies>>
        /\ UNCHANGED <<backend_vars, wsm_vars, http_vars, frps_vars, sup_vars, probe_vars, dash_vars, cli_vars, race_vars>>

\* the dashboard goes away
PeerCloses ==
    \E w \in Sockets :
        /\ sockets[w].pc \notin {"new", "closed"} /\ sockets[w].open
        /\ sockets' = [sockets EXCEPT ![w].open = FALSE]
        /\ UNCHANGED <<notification_clients, active_developer_cache, notifies>>
        /\ UNCHANGED <<backend_vars, wsm_vars, http_vars, frps_vars, sup_vars, probe_vars, dash_vars, cli_vars, race_vars>>

\* receive_json() or receive_text() raises because the peer is gone
WsDisconnected ==
    \E w \in Sockets :
        /\ sockets[w].pc \in {"receive_json", "receive_text"} /\ ~sockets[w].open
        /\ HandlerReturns(w, 0)
        /\ UNCHANGED <<backend_vars, wsm_vars, http_vars, frps_vars, sup_vars, probe_vars, dash_vars, cli_vars, race_vars>>

\* POST /internal/notify-commit arrives
NotifyStart ==
    \E k \in 1..MaxCalls, data \in NotifyBodies :
        /\ notifies[k].pc = "idle"
        /\ \A j \in 1..(k - 1) : notifies[j].pc # "idle"
        /\ LET r == internal_notify_commit(notification_clients, data)
           IN  /\ notification_clients' = r.clients
               /\ notifies' = [notifies EXCEPT ![k] = r.call]
        /\ active_developer_cache' =
              cache_after(active_developer_cache, notification_clients, data)
        /\ UNCHANGED sockets
        /\ UNCHANGED <<backend_vars, wsm_vars, http_vars, frps_vars, sup_vars, probe_vars, dash_vars, cli_vars, race_vars>>

\* the ws.send_json call k is suspended in completes, and the loop goes on
NotifySent ==
    \E k \in 1..MaxCalls, raises \in BOOLEAN :
        /\ notifies[k].pc = "send"
        /\ sockets[notifies[k].target].open => ~raises
        /\ LET call == notifies[k]
               ws   == call.target
               r    == broadcast(notification_clients,
                          IF raises
                          THEN [call EXCEPT !.disconnected = Append(@, ws)]
                          ELSE call)
           IN  /\ notification_clients' = r.clients
               /\ notifies' = [notifies EXCEPT ![k] = r.call]
               /\ sockets' =
                     IF raises \/ ~sockets[ws].open THEN sockets
                     ELSE [sockets EXCEPT ![ws].inbox =
                              Append(@, [type |-> call.type, room |-> call.room_code,
                                         call |-> k])]
        /\ UNCHANGED active_developer_cache
        /\ UNCHANGED <<backend_vars, wsm_vars, http_vars, frps_vars, sup_vars, probe_vars, dash_vars, cli_vars, race_vars>>

HubNext ==
    \/ WsConnect
    \/ WsSubscribe
    \/ WsSent
    \/ WsPing
    \/ PeerCloses
    \/ WsDisconnected
    \/ NotifyStart
    \/ NotifySent

HubSpec == Init /\ [][HubNext]_vars

-----------------------------------------------------------------------------
(* Properties of the notification hub.                                     *)

\* the messages of call k among those a peer got
FromCall(inbox, k) == SelectSeq(inbox, LAMBDA m : m.call = k)

\* w was registered for the room of call k when the call began, is still
\* registered for it, and its peer is there to receive
SubscribedThroughout(w, k) ==
    /\ w \in Range(notifies[k].audience)
    /\ notifies[k].room_code \in DOMAIN notification_clients
    /\ w \in Range(notification_clients[notifies[k].room_code])
    /\ sockets[w].open

\* C13: once a call of internal_notify_commit for room x has answered 200,
\* every connection subscribed to x has got exactly one message of the
\* call's type from it, and no connection subscribed to another room has got
\* any.
C13_ExactlyOnceToSubscribers ==
    \A k \in DOMAIN notifies :
        (notifies[k].pc = "done" /\ notifies[k].code = 200 /\ notifies[k].type # "") =>
            \A w \in Sockets :
                LET got == FromCall(sockets[w].inbox, k)
                IN  /\ Len(got) <= 1
                    /\ SubscribedThroughout(w, k) =>
                          got = <<[type |-> notifies[k].type,
                                   room |-> notifies[k].room_code, call |-> k]>>
                    /\ sockets[w].room_code # notifies[k].room_code => got = <<>>

\* C14: a room whose subscribers have all disconnected, their handlers
\* finished, is not a key of the subscription map.
C14_NoKeyWithoutSubscriber ==
    \A r \in DOMAIN notification_clients :
        \E w \in Sockets : sockets[w].room_code = r /\ sockets[w].pc # "closed"

\* how often websocket stands in the lists of the subscription map
Registrations(clients, websocket) ==
    LET at(r) == {i \in DOMAIN clients[r] : clients[r][i] = websocket}
    IN  Cardinality(UNION {{<<r, i>> : i \in at(r)} : r \in DOMAIN clients})

\* C31: a connection whose first message carries no room is closed with
\* 1011 and is never registered; otherwise it is registered under the
\* lower-cased room code before the confirmation is sent; a connection
\* stands in at most one room's list and at most once; and once its handler
\* has finished, at whatever step, it stands in no list.
C31_SubscriptionLifecycle ==
    /\ [](\A w \in Sockets :
            /\ Registrations(notification_clients, w) <= 1
            /\ sockets[w].pc = "closed" => Registrations(notification_clients, w) = 0
            /\ sockets[w].close_code = 1011 =>
                  sockets[w].pc = "closed" /\ sockets[w].room_code = None
            /\ \A r \in DOMAIN notification_clients :
                  w \in Range(notification_clients[r]) => sockets[w].room_code = r)
    /\ [][\A w \in Sockets :
            (sockets[w].pc = "receive_json" /\ sockets'[w].pc # "receive_json") =>
              \/ /\ sockets'[w].pc = "closed"
                 /\ Registrations(notification_clients', w) = 0
                 /\ sockets'[w].close_code = 1011 \/ ~sockets[w].open
              \/ /\ sockets'[w].pc = "send_subscribed"
                 /\ \E m \in SubscribeMessages[w] :
                       /\ ~Falsy(Get(m, "room"))
                       /\ sockets'[w].room_code = Lower(m.room)
                 /\ sockets'[w].room_code \in DOMAIN notification_clients'
                 /\ w \in Range(notification_clients'[sockets'[w].room_code])]_vars

\* C31 witness: one connection was refused with 1011, another was
\* registered for x and its handler has finished, a third is still there
C31_Witness ==
    /\ \E w \in Sockets : sockets[w].close_code = 1011
    /\ \E w \in Sockets :
          sockets[w].pc = "closed" /\ sockets[w].room_code = <<"x">>
    /\ <<"x">> \in DOMAIN notification_clients

\* C32: every connection that is registered for room r when a broadcast for
\* r starts and stays connected until the broadcast has finished has got
\* that broadcast's message exactly once, whatever other subscribers of r
\* did while the broadcast was suspended in a send.
C32_BroadcastComplete ==
    \A k \in DOMAIN notifies :
        (notifies[k].pc = "done" /\ notifies[k].audience # <<>>) =>
            \A w \in Range(notifies[k].audience) :
                SubscribedThroughout(w, k) => Len(FromCall(sockets[w].inbox, k)) = 1

\* a call of internal_notify_commit that got as far as a broadcast
Broadcasting(call) == call.pc = "done" /\ call.code # 400

\* C28: for every interleaving of a broadcast with the disconnect cleanup of
\* subscribers of the same room, also when the last subscriber's cleanup
\* deletes the room's map entry while the broadcast is suspended in a send,
\* the pruning step raises nothing and internal_notify_commit answers 200.
C28_BroadcastSurvivesCleanup ==
    \A k \in DOMAIN notifies :
        Broadcasting(notifies[k]) => notifies[k].code = 200

\* C29: after internal_notify_commit, called with room_code r and a
\* non-empty active_developer d, has answered 200, the cache maps r to d,
\* whether or not r has a subscriber; a room_update notification never
\* changes the cache.
C29_CacheUpdatedOnEveryCommit ==
    /\ [](\A k \in DOMAIN notifies :
            (notifies[k].pc = "done" /\ notifies[k].code = 200
                /\ notifies[k].active_developer # None) =>
              /\ notifies[k].room_code \in DOMAIN active_developer_cache
              /\ active_developer_cache[notifies[k].room_code]
                    = notifies[k].active_developer)
    /\ [][\A k \in DOMAIN notifies :
            (notifies[k].pc = "idle" /\ notifies'[k].pc # "idle"
                /\ notifies'[k].active_developer = None) =>
              active_developer_cache' = active_developer_cache]_vars

-----------------------------------------------------------------------------
(* The proxy's lookups at the coordination backend (src/proxy/app.py).     *)

\* str.replace(old, new) for a non-empty old
RECURSIVE Replace(_, _, _)
Replace(s, old, new) ==
    IF s = <<>> THEN <<>>
    ELSE IF StartsWith(s, old)
         THEN new \o Replace(SubSeq(s, Len(old) + 1, Len(s)), old, new)
         ELSE <<Head(s)>> \o Replace(Tail(s), old, new)

\* what the backend may answer to GET /get-active-url: not reached at all,
\* a status other than 200, a 200 whose body is not JSON, a 200 with JSON
BackendReplies ==
    {NoReply}
    \cup {[reached |-> TRUE, status_code |-> c, is_json |-> TRUE,
           json |-> ErrorBody("Validation failed")] : c \in {400, 404, 500, 503}}
    \cup {[reached |-> TRUE, status_code |-> 200, is_json |-> FALSE,
           json |-> [detail |-> <<>>]]}
    \cup {[reached |-> TRUE, status_code |-> 200, is_json |-> TRUE, json |-> j] :
            j \in {[active_url |-> FRP_PREFIX \o Netloc(U_al)],
                   [active_url |-> U_bo],
                   [active_url |-> None],
                   [active_url |-> <<>>],
                   [status |-> <<"o","k">>]}}

\* class BackendLookupError: status_code defaults to 502
BackendLookupError(message, status_code) ==
    [raised |-> TRUE, message |-> message, status_code |-> status_code,
     payload |-> [detail |-> <<>>]]

\* a lookup that answers with whatever status the backend reported
get_backend_json_passing_status(reply) ==
    IF ~reply.reached
    THEN BackendLookupError("Failed to contact coordination backend", 502)
    ELSE IF reply.status_code # 200
    THEN BackendLookupError("Coordination backend error", reply.status_code)
    ELSE IF ~reply.is_json
    THEN BackendLookupError("Invalid response from coordination backend", 502)
    ELSE [raised |-> FALSE, message |-> "", status_code |-> 200, payload |-> reply.json]

\* _get_backend_json, from the backend's reply on
get_backend_json(reply) ==
    IF ~reply.reached
    THEN BackendLookupError("Failed to contact coordination backend", 502)
    ELSE IF reply.status_code = 404
    THEN BackendLookupError("Room not found", 404)
    ELSE IF reply.status_code >= 500
    THEN BackendLookupError("Coordination backend error", 502)
    ELSE IF reply.status_code # 200
    THEN BackendLookupError("Unexpected response from coordination backend", 502)
    ELSE IF ~reply.is_json
    THEN BackendLookupError("Invalid response from coordination backend", 502)
    ELSE [raised |-> FALSE, message |-> "", status_code |-> 200, payload |-> reply.json]

\* a lookup that takes a reply without the key for one naming a tunnel
fetch_active_url_defaulting(reply) ==
    LET payload == get_backend_json(reply)
    IN  IF payload.raised THEN payload
        ELSE [payload EXCEPT !.payload =
                 IF Falsy(Get(payload.payload, "active_url")) THEN U_al
                 ELSE Get(payload.payload, "active_url")]

\* _fetch_active_url: the payload's active_url, None when the key is absent
fetch_active_url(reply) ==
    LET payload == get_backend_json(reply)
    IN  IF payload.raised THEN payload
        ELSE [payload EXCEPT !.payload = Get(payload.payload, "active_url")]

\* "|Host:", between the FRP endpoint and the Host header to send to it
HOST_DELIMITER == <<"|","H","o","s","t",":">>

\* s.find(p) + 1 for a p that occurs in s
IndexOf(s, p) ==
    CHOOSE i \in 1..Len(s) :
        /\ StartsWith(SubSeq(s, i, Len(s)), p)
        /\ \A j \in 1..(i - 1) : ~StartsWith(SubSeq(s, j, Len(s)), p)

\* mirror: active_url.split("|Host:", 1) when the delimiter is there
split_host(active_url) ==
    IF Contains(active_url, HOST_DELIMITER)
    THEN LET at == IndexOf(active_url, HOST_DELIMITER)
         IN  [base_url |-> SubSeq(active_url, 1, at - 1),
              custom_host_header |->
                  SubSeq(active_url, at + Len(HOST_DELIMITER), Len(active_url))]
    ELSE [base_url |-> active_url, custom_host_header |-> None]

\* _build_target_url(base_url, path)
build_target_url(base_url, path) ==
    LET trimmed_base == RStrip(base_url, {"/"})
    IN  IF path # <<>> THEN trimmed_base \o <<"/">> \o path ELSE trimmed_base

\* websocket_mirror: the scheme rewritten for WebSocket
ws_url(active_url) ==
    Replace(Replace(active_url, <<"h","t","t","p",":","/","/">>, <<"w","s",":","/","/">>),
            <<"h","t","t","p","s",":","/","/">>, <<"w","s","s",":","/","/">>)

\* websocket.url.path of the route "/ws"
WS_PATH == <<"/","w","s">>

\* websocket_mirror: target_ws_url for the request path; the replace of
\* "/rooms/<room_code>/ws" finds nothing in a path of the route /ws
target_ws_url(active_url, room_code, path) ==
    LET cut   == Replace(path, <<"/","r","o","o","m","s","/">> \o room_code \o WS_PATH, <<>>)
        slash == IF cut # <<>> /\ ~StartsWith(cut, <<"/">>) THEN <<"/">> \o cut ELSE cut
    IN  ws_url(active_url) \o slash

-----------------------------------------------------------------------------
(* The WebSocket mirror (src/proxy/app.py, websocket_mirror).              *)

\* ".m-act.live"
M_ACT_LIVE == <<".","m","-","a","c","t",".","l","i","v","e">>

\* ".localhost"
DOT_LOCALHOST == <<".","l","o","c","a","l","h","o","s","t">>

\* the room_code path parameter (None on the host-routed route) and the
\* Host header (empty when absent) of the sessions considered
SessionRequests ==
    {[path_room |-> <<"X">>, host |-> <<>>],
     [path_room |-> None, host |-> <<"y">> \o M_ACT_LIVE],
     [path_room |-> None, host |-> <<"y">> \o DOT_LOCALHOST \o <<":","8","0">>],
     [path_room |-> None, host |-> <<"a",".","i","o">>],
     [path_room |-> None, host |-> DOT_LOCALHOST],
     [path_room |-> None, host |-> <<>>]}

\* websocket_mirror: the room named by the path, else by the Host header
session_room_code(path_room, host) ==
    IF ~Falsy(path_room) THEN path_room
    ELSE IF host = <<>> THEN None
    ELSE LET host_without_port == TakeUntil(host, {":"})
         IN  IF Contains(host_without_port, M_ACT_LIVE)
             THEN Replace(host_without_port, M_ACT_LIVE, <<>>)
             ELSE IF Contains(host_without_port, DOT_LOCALHOST)
             THEN Replace(host_without_port, DOT_LOCALHOST, <<>>)
             ELSE None

\* await websocket.close(code, reason), after which the handler returns
SessionClosed(s, reason) ==
    [s EXCEPT !.pc = "closed", !.events = Append(@, "close"),
              !.close_code = 1011, !.reason = reason]

\* the connection is accepted and the room worked out
WsmAccept ==
    /\ session.pc = "new"
    /\ \E r \in SessionRequests :
         LET room_code == session_room_code(r.path_room, r.host)
             accepted  == [session EXCEPT !.path_room = r.path_room, !.host = r.host,
                                          !.events = Append(@, "accept")]
         IN  session' = IF Falsy(room_code)
                        THEN SessionClosed(accepted, "Could not determine room")
                        ELSE [accepted EXCEPT !.pc = "lookup",
                                              !.room_code = Lower(room_code)]
    /\ UNCHANGED <<backend_vars, hub_vars, http_vars, frps_vars, sup_vars, probe_vars, dash_vars, cli_vars, race_vars>>

\* the backend's reply to _fetch_active_url arrives
WsmLookup ==
    /\ session.pc = "lookup"
    /\ \E reply \in BackendReplies :
         LET active_url == fetch_active_url(reply)
             asked      == [session EXCEPT !.reply = reply,
                                           !.events = Append(@, "lookup")]
         IN  session' = IF active_url.raised
                        THEN SessionClosed(asked, active_url.message)
                        ELSE IF Falsy(active_url.payload)
                        THEN SessionClosed(asked, "No active developer")
                        ELSE [asked EXCEPT !.pc = "connect",
                                           !.active_url = active_url.payload,
                                           !.target_ws_url =
                                               target_ws_url(active_url.payload,
                                                   session.room_code, WS_PATH)]
    /\ UNCHANGED <<backend_vars, hub_vars, http_vars, frps_vars, sup_vars, probe_vars, dash_vars, cli_vars, race_vars>>

\* websockets.connect(target_ws_url) succeeds and both loops start, or raises
WsmConnect ==
    /\ session.pc = "connect"
    /\ \E connected \in BOOLEAN :
         session' = IF connected
                    THEN [session EXCEPT !.pc = "forwarding",
                                         !.events = Append(@, "connect"),
                                         !.upstream_open = TRUE,
                                         !.c2u = "receive", !.u2c = "next"]
                    ELSE SessionClosed(session, "Internal error")
    /\ UNCHANGED <<backend_vars, hub_vars, http_vars, frps_vars, sup_vars, probe_vars, dash_vars, cli_vars, race_vars>>

\* forward_client_to_upstream: a frame of the client is sent upstream; the
\* send raises when the upstream connection is gone
ClientSends ==
    /\ session.pc = "forwarding" /\ session.c2u = "receive"
    /\ session.client_open
    /\ session.to_upstream < MaxFrames
    /\ session' = IF session.upstream_open
                  THEN [session EXCEPT !.to_upstream = @ + 1]
                  ELSE [session EXCEPT !.c2u = "ended"]
    /\ UNCHANGED <<backend_vars, hub_vars, http_vars, frps_vars, sup_vars, probe_vars, dash_vars, cli_vars, race_vars>>

\* the client goes away
ClientCloses ==
    /\ session.pc = "forwarding"
    /\ session.client_open
    /\ session' = [session EXCEPT !.client_open = FALSE]
    /\ UNCHANGED <<backend_vars, hub_vars, http_vars, frps_vars, sup_vars, probe_vars, dash_vars, cli_vars, race_vars>>

\* forward_client_to_upstream: receive() hands over the disconnect message
\* and raises when called again
ClientLoopEnds ==
    /\ session.pc = "forwarding" /\ session.c2u = "receive"
    /\ ~session.client_open
    /\ session' = [session EXCEPT !.c2u = "ended"]
    /\ UNCHANGED <<backend_vars, hub_vars, http_vars, frps_vars, sup_vars, probe_vars, dash_vars, cli_vars, race_vars>>

\* forward_upstream_to_client: a message of the upstream is sent to the
\* client; with the client gone the send raises or passes unnoticed
UpstreamSends ==
    /\ session.pc = "forwarding" /\ session.u2c = "next"
    /\ session.upstream_open
    /\ session.to_client < MaxFrames
    /\ \E raises \in BOOLEAN :
         /\ session.client_open => ~raises
         /\ session' = IF raises THEN [session EXCEPT !.u2c = "ended"]
                       ELSE IF session.client_open
                       THEN [session EXCEPT !.to_client = @ + 1]
                       ELSE session
         /\ session' # session
    /\ UNCHANGED <<backend_vars, hub_vars, http_vars, frps_vars, sup_vars, probe_vars, dash_vars, cli_vars, race_vars>>

\* the upstream closes its connection
UpstreamCloses ==
    /\ session.pc = "forwarding"
    /\ session.upstream_open
    /\ session' = [session EXCEPT !.upstream_open = FALSE]
    /\ UNCHANGED <<backend_vars, hub_vars, http_vars, frps_vars, sup_vars, probe_vars, dash_vars, cli_vars, race_vars>>

\* forward_upstream_to_client: the iteration over upstream_ws ends
UpstreamLoopEnds ==
    /\ session.pc = "forwarding" /\ session.u2c = "next"
    /\ ~session.upstream_open
    /\ session' = [session EXCEPT !.u2c = "ended"]
    /\ UNCHANGED <<backend_vars, hub_vars, http_vars, frps_vars, sup_vars, probe_vars, dash_vars, cli_vars, race_vars>>

\* asyncio.gather returns once both loops have; leaving the async with
\* block closes the upstream connection and the handler returns
WsmGatherDone ==
    /\ session.pc = "forwarding"
    /\ session.c2u = "ended" /\ session.u2c = "ended"
    /\ session' = [session EXCEPT !.pc = "closed", !.upstream_open = FALSE,
                                  !.events = Append(@, "release")]
    /\ UNCHANGED <<backend_vars, hub_vars, http_vars, frps_vars, sup_vars, probe_vars, dash_vars, cli_vars, race_vars>>

WsmNext ==
    \/ WsmAccept
    \/ WsmLookup
    \/ WsmConnect
    \/ ClientSends
    \/ ClientCloses
    \/ ClientLoopEnds
    \/ UpstreamSends
    \/ UpstreamCloses
    \/ UpstreamLoopEnds
    \/ WsmGatherDone

WsmSpec == Init /\ [][WsmNext]_vars

-----------------------------------------------------------------------------
(* Properties of the WebSocket mirror.                                     *)

\* C15: as soon as one of the two forwarding loops of a session has ended,
\* the handler can complete and release the upstream connection: it does not
\* wait for the other loop.
C15_EitherLoopEndsSession ==
    (session.pc = "forwarding" /\ (session.c2u = "ended" \/ session.u2c = "ended"))
        => ENABLED WsmGatherDone

\* neither the path nor the Host header of the session names a room
Unresolvable(path_room, host) ==
    /\ Falsy(path_room)
    /\ LET name == TakeUntil(host, {":"})
       IN  \/ ~Contains(name, M_ACT_LIVE) /\ ~Contains(name, DOT_LOCALHOST)
           \/ name \in {M_ACT_LIVE, DOT_LOCALHOST}

\* the backend answered 200 with JSON that names no active URL
NoActiveUrl(reply) ==
    /\ reply.reached /\ reply.status_code = 200 /\ reply.is_json
    /\ \/ "active_url" \notin DOMAIN reply.json
       \/ reply.json.active_url \in {None, <<>>}

\* C16: a session whose room has no active URL has been accepted, then closed
\* with 1011 "No active developer", and has opened no upstream connection; a
\* session whose room cannot be resolved has been closed with 1011 before any
\* backend lookup or upstream connection.
C16_ClosedWithoutUpstream ==
    /\ ("lookup" \in Range(session.events) /\ NoActiveUrl(session.reply)) =>
          /\ session.events = <<"accept", "lookup", "close">>
          /\ session.pc = "closed"
          /\ session.close_code = 1011
          /\ session.reason = "No active developer"
          /\ ~session.upstream_open
    /\ (session.pc # "new" /\ Unresolvable(session.path_room, session.host)) =>
          /\ session.events = <<"accept", "close">>
          /\ session.pc = "closed"
          /\ session.close_code = 1011
          /\ session.reason = "Could not determine room"
          /\ ~session.upstream_open

\* a session for room x was told by the backend that the key is absent
C16_Witness ==
    /\ session.room_code = <<"x">>
    /\ session.reply.reached /\ session.reply.status_code = 200
    /\ session.reply.json = [status |-> <<"o","k">>]
    /\ session.pc = "closed"
    /\ session.reason = "No active developer"

\* C38: when the backend returns an active URL "<base>|Host:<host>", the
\* address on which the WebSocket mirror opens its upstream connection is
\* derived from <base> only, its scheme rewritten to ws or wss, and does not
\* contain the "|Host:" delimiter, as the HTTP mirror splits it.
C38_WsTargetWithoutHostPart ==
    (session.pc \in {"connect", "forwarding"}
        /\ Contains(session.active_url, HOST_DELIMITER)) =>
            /\ ~Contains(session.target_ws_url, HOST_DELIMITER)
            /\ session.target_ws_url
                  = ws_url(build_target_url(split_host(session.active_url).base_url,
                                            Tail(WS_PATH)))

-----------------------------------------------------------------------------
(* The HTTP mirror (src/proxy/app.py, mirror).                             *)

\* _extract_room_code: the room named by the path, else by the Host header
extract_room_code(path_room, host) ==
    LET room_code == session_room_code(path_room, host)
    IN  IF Falsy(room_code) THEN None ELSE Lower(room_code)

\* "text/html"
TEXT_HTML == <<"t","e","x","t","/","h","t","m","l">>

\* "application/json"
APPLICATION_JSON == <<"a","p","p","l","i","c","a","t","i","o","n","/","j","s","o","n">>

\* "</body>"
BODY_CLOSE == <<"<","/","b","o","d","y",">">>

\* a byte that is not valid UTF-8
BadByte == "\\xff"

\* the f-string auto_refresh_script: a newline, the script element (its
\* text stands as one element here), a newline, "</body>" and a newline
auto_refresh_script ==
    <<"\n", "<script>(function() {...})();</script>", "\n">> \o BODY_CLOSE \o <<"\n">>

\* IGNORED_UPSTREAM_HEADERS
IGNORED_UPSTREAM_HEADERS == {"content-encoding", "transfer-encoding", "connection"}

\* the bodies an upstream may send
UpstreamBodies ==
    {<<"h","i">> \o BODY_CLOSE,
     BODY_CLOSE \o <<"a">> \o BODY_CLOSE \o <<"\n">>,
     <<"h","i">>,
     <<BadByte>> \o BODY_CLOSE,
     <<"<","/","B","O","D","Y",">">>,
     <<>>}

\* the content types an upstream may declare; the last stands for no header
UpstreamContentTypes ==
    {TEXT_HTML,
     TEXT_HTML \o <<";"," ","c","h","a","r","s","e","t","=","u","t","f","-","8">>,
     APPLICATION_JSON,
     <<"t","e","x","t","/","p","l","a","i","n">>,
     <<>>}

\* the headers of an upstream response, keyed by lower-cased name
UpstreamHeaders(content_type, content, connection) ==
    (IF content_type = <<>> THEN <<>> ELSE ("content-type" :> content_type))
    @@ ("content-length" :> Len(content))
    @@ (IF connection THEN ("connection" :> <<"c","l","o","s","e">>) ELSE <<>>)

\* what the tunnel may answer
UpstreamResponses ==
    {[reached |-> TRUE, status_code |-> c,
      headers |-> UpstreamHeaders(t, b, k), content |-> b] :
        c \in {200, 404}, t \in UpstreamContentTypes, b \in UpstreamBodies, k \in BOOLEAN}

\* JSONResponse({"error": error, ...}, status_code)
ErrorResponse(error, status_code) ==
    [status_code |-> status_code, error |-> error, content |-> <<>>, headers |-> <<>>]

\* content.decode("utf-8") succeeds
Decodable(content) == BadByte \notin Range(content)

\* an injection that puts the script after the closing tag
inject_after_close(content) ==
    IF Decodable(content) /\ Contains(content, BODY_CLOSE)
    THEN Replace(content, BODY_CLOSE,
                 BODY_CLOSE \o SubSeq(auto_refresh_script, 1, 3))
    ELSE content

\* mirror: the script replaces every "</body>" of a body that decodes
inject_auto_refresh(content) ==
    IF Decodable(content) /\ Contains(content, BODY_CLOSE)
    THEN Replace(content, BODY_CLOSE, auto_refresh_script)
    ELSE content

\* _mirror_headers
mirror_headers(upstream_headers) ==
    [header \in DOMAIN upstream_headers \ IGNORED_UPSTREAM_HEADERS |->
        upstream_headers[header]]

\* mirror: the Response built from the upstream's
mirror_response(response) ==
    LET content_type == IF "content-type" \in DOMAIN response.headers
                        THEN response.headers["content-type"] ELSE <<>>
        content      == IF Contains(content_type, TEXT_HTML)
                        THEN inject_auto_refresh(response.content)
                        ELSE response.content
        mirrored     == mirror_headers(response.headers)
        sized        == IF Len(content) # Len(response.content)
                        THEN ("content-length" :> Len(content)) @@ mirrored
                        ELSE mirrored
    IN  [status_code |-> response.status_code, error |-> "", content |-> content,
         headers |-> ("cache-control" :> "no-cache, no-store, must-revalidate")
                     @@ ("pragma" :> "no-cache") @@ ("expires" :> "0") @@ sized]

\* mirror, up to the lookup: 400 when no room can be worked out
MirrorRequest ==
    /\ exchange.pc = "new"
    /\ \E r \in SessionRequests :
         LET room_code == extract_room_code(r.path_room, r.host)
             arrived   == [exchange EXCEPT !.path_room = r.path_room, !.host = r.host]
         IN  exchange' = IF Falsy(room_code)
                         THEN [arrived EXCEPT !.pc = "answered",
                                 !.response = ErrorResponse("invalid_request", 400)]
                         ELSE [arrived EXCEPT !.pc = "lookup", !.room_code = room_code]
    /\ UNCHANGED <<backend_vars, hub_vars, wsm_vars, frps_vars, sup_vars, probe_vars, dash_vars, cli_vars, race_vars>>

\* mirror, from the backend's reply to the upstream request
MirrorLookup ==
    /\ exchange.pc = "lookup"
    /\ \E reply \in BackendReplies :
         LET active_url == fetch_active_url(reply)
             asked      == [exchange EXCEPT !.reply = reply]
         IN  exchange' =
               IF active_url.raised
               THEN [asked EXCEPT !.pc = "answered",
                       !.response = ErrorResponse("backend_unavailable",
                                                  active_url.status_code)]
               ELSE IF Falsy(active_url.payload)
               THEN [asked EXCEPT !.pc = "answered",
                       !.response = ErrorResponse("no_active_developer", 503)]
               ELSE LET split == split_host(active_url.payload)
                    IN  [asked EXCEPT !.pc = "upstream", !.upstream_requests = @ + 1,
                           !.target_url = build_target_url(split.base_url, <<>>),
                           !.custom_host_header = split.custom_host_header]
    /\ UNCHANGED <<backend_vars, hub_vars, wsm_vars, frps_vars, sup_vars, probe_vars, dash_vars, cli_vars, race_vars>>

\* mirror, from the upstream's answer on: httpx.RequestError gives 502
MirrorUpstream ==
    /\ exchange.pc = "upstream"
    /\ \E response \in UpstreamResponses \cup {NoUpstream} :
         exchange' =
           [exchange EXCEPT !.pc = "answered", !.upstream = response,
              !.response = IF response.reached
                           THEN mirror_response(response)
                           ELSE ErrorResponse("upstream_unreachable", 502)]
    /\ UNCHANGED <<backend_vars, hub_vars, wsm_vars, frps_vars, sup_vars, probe_vars, dash_vars, cli_vars, race_vars>>

HttpNext ==
    \/ MirrorRequest
    \/ MirrorLookup
    \/ MirrorUpstream

HttpSpec == Init /\ [][HttpNext]_vars

-----------------------------------------------------------------------------
(* Properties of the HTTP mirror.                                          *)

\* the backend was asked and the mirror has answered
LookedUp == exchange.pc = "answered" /\ exchange.reply # NoReply

\* the lookup failed: the backend answered a status other than 200
BackendRefused == LookedUp /\ exchange.reply.reached /\ exchange.reply.status_code # 200

\* C17 (as stated): when the backend lookup fails, the mirror answers with the
\* backend's reported status code, for every backend status other than 200.
C17_BackendStatusPassedOn ==
    BackendRefused =>
        /\ exchange.response.error = "backend_unavailable"
        /\ exchange.response.status_code = exchange.reply.status_code

\* C17 (amended): a failed lookup is answered backend_unavailable with 404
\* when the backend said 404 and with 502 for every other status, for a body
\* that is not JSON and for an unreachable backend; a lookup naming no active
\* URL is answered 503 no_active_developer; in these cases no upstream
\* request is issued; an unreachable tunnel is answered 502
\* upstream_unreachable after the one request that failed.
C17_ErrorMapping ==
    /\ exchange.upstream_requests <= 1
    /\ (exchange.pc = "answered" /\ exchange.room_code # None
        /\ exchange.reply = NoReply) =>
          /\ exchange.response = ErrorResponse("backend_unavailable", 502)
          /\ exchange.upstream_requests = 0
    /\ BackendRefused =>
          /\ exchange.response =
               ErrorResponse("backend_unavailable",
                             IF exchange.reply.status_code = 404 THEN 404 ELSE 502)
          /\ exchange.upstream_requests = 0
    /\ (LookedUp /\ exchange.reply.status_code = 200 /\ ~exchange.reply.is_json) =>
          /\ exchange.response = ErrorResponse("backend_unavailable", 502)
          /\ exchange.upstream_requests = 0
    /\ (LookedUp /\ NoActiveUrl(exchange.reply)) =>
          /\ exchange.response = ErrorResponse("no_active_developer", 503)
          /\ exchange.upstream_requests = 0
    /\ (exchange.pc = "answered" /\ exchange.upstream_requests = 1
        /\ ~exchange.upstream.reached) =>
          exchange.response = ErrorResponse("upstream_unreachable", 502)

\* the backend answered 500 and the mirror answered 502
C17_Witness ==
    /\ BackendRefused
    /\ exchange.reply.status_code = 500
    /\ exchange.response.status_code = 502
    /\ exchange.response.error = "backend_unavailable"

\* the mirror has answered with what an upstream sent
Mirrored == exchange.pc = "answered" /\ exchange.upstream.reached

\* the content type the upstream declared, empty when it declared none
DeclaredType ==
    IF "content-type" \in DOMAIN exchange.upstream.headers
    THEN exchange.upstream.headers["content-type"] ELSE <<>>

\* the upstream answered text/html with a body that has a closing tag
HtmlWithClosingTag ==
    /\ Mirrored
    /\ Contains(DeclaredType, TEXT_HTML)
    /\ Contains(exchange.upstream.content, BODY_CLOSE)

\* the script element and what the injection puts between it and the tag
ScriptBeforeClose == SubSeq(auto_refresh_script, 2, 3) \o BODY_CLOSE

\* how many times p occurs in s
Occurrences(s, p) ==
    Cardinality({i \in 1..Len(s) : StartsWith(SubSeq(s, i, Len(s)), p)})

\* the returned body is the upstream's with the script before each closing
\* tag, and content-length is its length
ScriptInjected ==
    LET body     == exchange.upstream.content
        returned == exchange.response.content
    IN  /\ Occurrences(returned, BODY_CLOSE) = Occurrences(body, BODY_CLOSE)
        /\ Occurrences(returned, ScriptBeforeClose) = Occurrences(body, BODY_CLOSE)
        /\ Replace(returned, auto_refresh_script, BODY_CLOSE) = body
        /\ "content-length" \in DOMAIN exchange.response.headers
        /\ exchange.response.headers["content-length"] = Len(returned)

\* the three no-cache headers
NoCacheHeaders ==
    LET headers == exchange.response.headers
    IN  /\ {"cache-control", "pragma", "expires"} \subseteq DOMAIN headers
        /\ headers["cache-control"] = "no-cache, no-store, must-revalidate"
        /\ headers["pragma"] = "no-cache"
        /\ headers["expires"] = "0"

\* C18 (as stated): an upstream response of content type text/html whose body
\* contains </body> is returned with the reload script before the closing
\* tag and content-length equal to the length of the returned body.
C18_InjectedWheneverHtml == HtmlWithClosingTag => ScriptInjected

\* C18 (amended): an upstream response of content type text/html whose body
\* decodes as UTF-8 and contains </body> is returned with the reload script
\* before the closing tag and content-length equal to the length of the
\* returned body; a text/html body that does not decode, and a body of any
\* other content type, is returned as the upstream sent it; in all cases the
\* three no-cache headers are present.
C18_BodyHandling ==
    /\ (HtmlWithClosingTag /\ Decodable(exchange.upstream.content)) => ScriptInjected
    /\ (Mirrored /\ ( \/ ~Contains(DeclaredType, TEXT_HTML)
                      \/ ~Decodable(exchange.upstream.content))) =>
          exchange.response.content = exchange.upstream.content
    /\ Mirrored => /\ NoCacheHeaders
                   /\ exchange.response.status_code = exchange.upstream.status_code

\* a page with two closing tags came back with the script before each
C18_Witness ==
    /\ HtmlWithClosingTag
    /\ Occurrences(exchange.upstream.content, BODY_CLOSE) = 2
    /\ Occurrences(exchange.response.content, ScriptBeforeClose) = 2
    /\ exchange.response.headers["content-length"] = Len(exchange.response.content)
    /\ Len(exchange.response.content) > Len(exchange.upstream.content)

-----------------------------------------------------------------------------
(* The frps process manager (src/proxy/frp_manager.py).                    *)

\* self._process and self._process.poll() is None
TrackedAlive(f) == f.process # 0 /\ f.procs[f.process] = "alive"

\* FrpsLaunchResult(started, reason)
FrpsLaunchResult(started, reason) ==
    [op |-> "start", started |-> started, reason |-> reason,
     signals |-> <<>>, raised |-> FALSE]

\* str(exc) of the OSError of a failed Popen
SpawnErrorText == "[Errno 13] Permission denied"

\* the manager after subprocess.Popen succeeds
Spawned(f) ==
    [f EXCEPT !.procs = Append(@, "alive"), !.process = Len(f.procs) + 1,
              !.last = FrpsLaunchResult(TRUE, "")]

\* a start that launches whether or not a process is tracked
start_always_spawning(f, os_error) ==
    IF ~f.configured
    THEN [f EXCEPT !.last = FrpsLaunchResult(FALSE, "frps binary not configured")]
    ELSE IF os_error
    THEN [f EXCEPT !.last = FrpsLaunchResult(FALSE, SpawnErrorText)]
    ELSE Spawned(f)

\* FrpsManager.start; os_error tells whether Popen raises OSError
start(f, os_error) ==
    IF TrackedAlive(f)
    THEN [f EXCEPT !.last = FrpsLaunchResult(TRUE, "")]
    ELSE IF ~f.configured
    THEN [f EXCEPT !.last = FrpsLaunchResult(FALSE, "frps binary not configured")]
    ELSE IF os_error
    THEN [f EXCEPT !.last = FrpsLaunchResult(FALSE, SpawnErrorText)]
    ELSE Spawned(f)

\* what stop leaves behind: the signals it sent and whether it raised
Stopped(signals, raised) ==
    [op |-> "stop", started |-> FALSE, reason |-> "",
     signals |-> signals, raised |-> raised]

\* FrpsManager.stop; first_wait and second_wait tell whether the process
\* exits within wait(timeout=5) after terminate() and after kill()
stop(f, first_wait, second_wait) ==
    IF f.process = 0
    THEN [f EXCEPT !.last = Stopped(<<>>, FALSE)]
    ELSE IF ~TrackedAlive(f)
    THEN [f EXCEPT !.process = 0, !.last = Stopped(<<>>, FALSE)]
    ELSE IF first_wait = "exits"
    THEN [f EXCEPT !.procs[f.process] = "exited", !.process = 0,
                   !.last = Stopped(<<"terminate">>, FALSE)]
    ELSE IF second_wait = "exits"
    THEN [f EXCEPT !.procs[f.process] = "exited", !.process = 0,
                   !.last = Stopped(<<"terminate", "kill">>, FALSE)]
    ELSE [f EXCEPT !.last = Stopped(<<"terminate", "kill">>, TRUE)]

\* FrpsManager.running
running(f) == TrackedAlive(f)

\* the outcomes of a wait(timeout=5)
WaitOutcomes == {"exits", "timeout"}

FrpsStart ==
    /\ frps.calls < MaxOps
    /\ \E os_error \in BOOLEAN :
         /\ (TrackedAlive(frps) \/ ~frps.configured) => ~os_error
         /\ frps' = [start(frps, os_error) EXCEPT !.calls = @ + 1]
    /\ UNCHANGED <<backend_vars, hub_vars, wsm_vars, http_vars, sup_vars, probe_vars, dash_vars, cli_vars, race_vars>>

FrpsStop ==
    /\ frps.calls < MaxOps
    /\ \E first_wait \in WaitOutcomes, second_wait \in WaitOutcomes :
         /\ ~TrackedAlive(frps) => first_wait = "exits"
         /\ first_wait = "exits" => second_wait = "exits"
         /\ frps' = [stop(frps, first_wait, second_wait) EXCEPT !.calls = @ + 1]
    /\ UNCHANGED <<backend_vars, hub_vars, wsm_vars, http_vars, sup_vars, probe_vars, dash_vars, cli_vars, race_vars>>

\* a spawned process exits by itself
ProcessExits ==
    /\ \E p \in DOMAIN frps.procs :
         /\ frps.procs[p] = "alive"
         /\ frps' = [frps EXCEPT !.procs[p] = "exited"]
    /\ UNCHANGED <<backend_vars, hub_vars, wsm_vars, http_vars, sup_vars, probe_vars, dash_vars, cli_vars, race_vars>>

\* the binary is removed from, or put at, the configured path
BinaryChanges ==
    /\ frps' = [frps EXCEPT !.configured = ~@]
    /\ UNCHANGED <<backend_vars, hub_vars, wsm_vars, http_vars, sup_vars, probe_vars, dash_vars, cli_vars, race_vars>>

FrpsNext ==
    \/ FrpsStart
    \/ FrpsStop
    \/ ProcessExits
    \/ BinaryChanges

FrpsSpec == Init /\ [][FrpsNext]_vars

-----------------------------------------------------------------------------
(* Properties of the frps process manager.                                 *)

\* the processes the manager spawned that are alive
Alive(f) == {p \in DOMAIN f.procs : f.procs[p] = "alive"}

\* this step is a call of start, of stop
StartStep == frps'.calls = frps.calls + 1 /\ frps'.last.op = "start"

StopStep == frps'.calls = frps.calls + 1 /\ frps'.last.op = "stop"

\* the step spawned nothing and changed no process
NothingSpawned == frps'.procs = frps.procs /\ frps'.process = frps.process

\* C19 (as stated): start() when not configured spawns nothing and returns
\* started=false with a non-empty reason.
C19_NotConfiguredRefused ==
    [][(StartStep /\ ~frps.configured) =>
          /\ NothingSpawned
          /\ ~frps'.last.started
          /\ frps'.last.reason # ""]_vars

\* how a call of start must go
C19_StartStep ==
    StartStep =>
        /\ TrackedAlive(frps) =>
              NothingSpawned /\ frps'.last.started
        /\ (~TrackedAlive(frps) /\ ~frps.configured) =>
              /\ NothingSpawned
              /\ ~frps'.last.started
              /\ frps'.last.reason # ""
        /\ (~frps'.last.started /\ frps.configured) =>
              /\ NothingSpawned
              /\ frps'.last.reason = SpawnErrorText
        /\ frps'.procs # frps.procs =>
              /\ frps'.last.started
              /\ Alive(frps') = {frps'.process}
              /\ frps'.process \notin DOMAIN frps.procs

\* C19 (amended): at most one process spawned by the manager is alive, and it
\* is the tracked one; start() while the tracked process is alive spawns
\* nothing and returns started=true; start() when not configured and no
\* tracked process is alive spawns nothing and returns started=false with a
\* non-empty reason; a spawn failure returns started=false with the error
\* text.
C19_StartIdempotent ==
    /\ [](Cardinality(Alive(frps)) <= 1 /\ Alive(frps) \subseteq {frps.process})
    /\ [][C19_StartStep]_vars

\* start was called twice in a row; the process of the first call is alive
\* and still the only one
C19_Witness ==
    /\ frps.calls = 2
    /\ frps.last.op = "start" /\ frps.last.started
    /\ frps.procs = <<"alive">>
    /\ frps.process = 1

\* C20: stop() with no tracked process or an exited one sends no signal;
\* otherwise terminate is sent first and kill only after the first wait
\* expired; whenever stop() is over the handle is cleared and running() is
\* false, also when the process does not exit within the wait after kill.
C20_StopClearsHandle ==
    [][StopStep =>
          /\ ~TrackedAlive(frps) => frps'.last.signals = <<>>
          /\ TrackedAlive(frps) =>
                frps'.last.signals \in {<<"terminate">>, <<"terminate", "kill">>}
          /\ frps'.process = 0
          /\ ~running(frps')]_vars

-----------------------------------------------------------------------------
(* The frp supervisor (src/proxy/frp_supervisor.py).                       *)

\* the directory the proxy runs in
CWD == <<"srv">>

\* a relative and an absolute path, as their components
Rel(parts) == [absolute |-> FALSE, parts |-> parts]

AbsPath(parts) == [absolute |-> TRUE, parts |-> parts]

\* os.path.normpath on the components of an absolute path
RECURSIVE normpath(_, _)
normpath(done, parts) ==
    IF parts = <<>> THEN done
    ELSE IF Head(parts) = "." THEN normpath(done, Tail(parts))
    ELSE IF Head(parts) = ".."
    THEN normpath(IF done = <<>> THEN <<>> ELSE SubSeq(done, 1, Len(done) - 1),
                  Tail(parts))
    ELSE normpath(Append(done, Head(parts)), Tail(parts))

\* os.path.abspath(config_path)
abspath(path) == normpath(<<>>, (IF path.absolute THEN <<>> ELSE CWD) \o path.parts)

\* the lists of client configs a supervisor may be given
ConfigLists ==
    {<<>>,
     <<Rel(<<"a">>)>>,
     <<Rel(<<"a">>), Rel(<<".", "a">>)>>,
     <<Rel(<<"a">>), Rel(<<"b">>)>>,
     <<AbsPath(<<"srv", "a">>), Rel(<<"..", "srv", "b">>), Rel(<<"a">>)>>}

\* the config files there may be
ConfigFiles == {<<"srv", "a">>, <<"srv", "b">>}

\* normalized in self._frpc_processes
Tracked(s, normalized) ==
    \E i \in DOMAIN s.frpc_processes : s.frpc_processes[i].config_path = normalized

\* the supervisor after Popen succeeds for the config
ClientSpawned(s, normalized) ==
    [s EXCEPT !.cprocs = Append(@, [config_path |-> normalized, state |-> "alive"]),
              !.frpc_processes = Append(@, [config_path |-> normalized,
                                            process |-> Len(s.cprocs) + 1])]

\* a client start that does not look whether the config is tracked
start_frpc_again(s, config_path, failing) ==
    LET normalized == abspath(config_path)
    IN  IF normalized \notin s.files THEN s
        ELSE IF normalized \in failing THEN s
        ELSE ClientSpawned(s, normalized)

\* FrpSupervisor._start_frpc; failing are the configs whose Popen raises
start_frpc(s, config_path, failing) ==
    LET normalized == abspath(config_path)
    IN  IF normalized \notin s.files THEN s
        ELSE IF Tracked(s, normalized) THEN s
        ELSE IF normalized \in failing THEN s
        ELSE ClientSpawned(s, normalized)

\* for config_path in self._frpc_configs: self._start_frpc(config_path)
RECURSIVE start_each(_, _, _)
start_each(s, configs, failing) ==
    IF configs = <<>> THEN s
    ELSE start_each(start_frpc(s, Head(configs), failing), Tail(configs), failing)

\* FrpSupervisor.start: the supervisor and the manager after the call
supervisor_start(s, f, os_error, failing) ==
    LET manager == start(f, os_error)
        noted   == [s EXCEPT !.frps_launch_result = manager.last,
                             !.last = [op |-> "start", raised |-> FALSE,
                                       failing |-> failing, events |-> <<>>]]
    IN  [frps |-> manager,
         sup  |-> IF s.frpc_configs = <<>> \/ ~s.frpc_available THEN noted
                  ELSE start_each(noted, s.frpc_configs, failing)]

\* something stop did to a process; process 0 is the manager's
Did(what, process) == [what |-> what, process |-> process]

\* self._frpc_processes.pop(config_path, None)
Pop(table, config_path) == SelectSeq(table, LAMBDA e : e.config_path # config_path)

\* the loop of FrpSupervisor.stop over list(self._frpc_processes.values());
\* waits tells for each live client whether it exits within the wait after
\* terminate() and within the wait after kill()
RECURSIVE stop_clients(_, _, _)
stop_clients(s, entries, waits) ==
    IF entries = <<>> THEN s
    ELSE
    LET p == Head(entries).process
    IN  IF s.cprocs[p].state # "alive"
        THEN stop_clients(
               [s EXCEPT !.frpc_processes = Pop(@, Head(entries).config_path),
                         !.last.events = Append(@, Did("pop", p))],
               Tail(entries), waits)
        ELSE IF waits[p].first = "exits"
        THEN stop_clients(
               [s EXCEPT !.cprocs[p].state = "exited",
                         !.frpc_processes = Pop(@, Head(entries).config_path),
                         !.last.events = @ \o <<Did("terminate", p), Did("pop", p)>>],
               Tail(entries), waits)
        ELSE IF waits[p].second = "exits"
        THEN stop_clients(
               [s EXCEPT !.cprocs[p].state = "exited",
                         !.frpc_processes = Pop(@, Head(entries).config_path),
                         !.last.events = @ \o <<Did("terminate", p), Did("kill", p),
                                                Did("pop", p)>>],
               Tail(entries), waits)
        ELSE [s EXCEPT !.last.raised = TRUE,
                       !.last.events = @ \o <<Did("terminate", p), Did("kill", p)>>]

\* FrpSupervisor.stop: the supervisor and the manager after the call
supervisor_stop(s, f, waits, first_wait, second_wait) ==
    LET begun   == [s EXCEPT !.last = [op |-> "stop", raised |-> FALSE,
                                       failing |-> {}, events |-> <<>>]]
        clients == stop_clients(begun, s.frpc_processes, waits)
        manager == stop(f, first_wait, second_wait)
    IN  IF clients.last.raised THEN [frps |-> f, sup |-> clients]
        ELSE [frps |-> manager,
              sup  |-> [clients EXCEPT !.last.raised = manager.last.raised,
                                       !.last.events = Append(@, Did("stop", 0))]]

\* how a process may answer terminate() and kill()
WaitPairs ==
    {[first |-> "exits", second |-> "exits"],
     [first |-> "timeout", second |-> "exits"],
     [first |-> "timeout", second |-> "timeout"]}

\* the live clients that are tracked
LiveClients(s) ==
    {s.frpc_processes[i].process : i \in DOMAIN s.frpc_processes}
        \cap {p \in DOMAIN s.cprocs : s.cprocs[p].state = "alive"}

\* FrpSupervisor(frps_manager, frpc_configs, frpc_binary)
SupConstruct ==
    /\ sup.pc = "new"
    /\ \E configs \in ConfigLists, available \in BOOLEAN :
         sup' = [sup EXCEPT !.pc = "ready", !.frpc_configs = configs,
                            !.frpc_available = available, !.files = ConfigFiles]
    /\ UNCHANGED <<backend_vars, hub_vars, wsm_vars, http_vars, frps_vars, probe_vars, dash_vars, cli_vars, race_vars>>

SupStart ==
    /\ sup.pc = "ready"
    /\ sup.calls < MaxOps
    /\ \E os_error \in BOOLEAN, failing \in SUBSET ConfigFiles :
         /\ (TrackedAlive(frps) \/ ~frps.configured) => ~os_error
         /\ LET after == supervisor_start(sup, frps, os_error, failing)
            IN  /\ sup' = [after.sup EXCEPT !.calls = @ + 1]
                /\ frps' = after.frps
    /\ UNCHANGED <<backend_vars, hub_vars, wsm_vars, http_vars, probe_vars, dash_vars, cli_vars, race_vars>>

SupStop ==
    /\ sup.pc = "ready"
    /\ sup.calls < MaxOps
    /\ \E waits \in [LiveClients(sup) -> WaitPairs], manager_wait \in WaitPairs :
         /\ ~TrackedAlive(frps) => manager_wait.first = "exits"
         /\ LET after == supervisor_stop(sup, frps, waits,
                                         manager_wait.first, manager_wait.second)
            IN  /\ sup' = [after.sup EXCEPT !.calls = @ + 1]
                /\ frps' = after.frps
    /\ UNCHANGED <<backend_vars, hub_vars, wsm_vars, http_vars, probe_vars, dash_vars, cli_vars, race_vars>>

\* a spawned client exits by itself
ClientExits ==
    /\ \E p \in DOMAIN sup.cprocs :
         /\ sup.cprocs[p].state = "alive"
         /\ sup' = [sup EXCEPT !.cprocs[p].state = "exited"]
    /\ UNCHANGED <<backend_vars, hub_vars, wsm_vars, http_vars, frps_vars, probe_vars, dash_vars, cli_vars, race_vars>>

\* a config file is removed or put back
ConfigFileChanges ==
    /\ sup.pc = "ready"
    /\ \E file \in ConfigFiles :
         sup' = [sup EXCEPT !.files = IF file \in @ THEN @ \ {file} ELSE @ \cup {file}]
    /\ UNCHANGED <<backend_vars, hub_vars, wsm_vars, http_vars, frps_vars, probe_vars, dash_vars, cli_vars, race_vars>>

SupNext ==
    \/ SupConstruct
    \/ SupStart
    \/ SupStop
    \/ ClientExits
    \/ ConfigFileChanges

SupSpec == Init /\ [][SupNext]_vars

-----------------------------------------------------------------------------
(* Properties of the frp supervisor.                                       *)

\* this step is a call of the supervisor's start, of its stop
SupStartStep == sup'.calls = sup.calls + 1 /\ sup'.last.op = "start"

SupStopStep == sup'.calls = sup.calls + 1 /\ sup'.last.op = "stop"

\* the config paths the supervisor tracks
TrackedPaths(s) == {s.frpc_processes[i].config_path : i \in DOMAIN s.frpc_processes}

\* the live processes spawned for a config path
LiveFor(s, file) ==
    {p \in DOMAIN s.cprocs : s.cprocs[p].config_path = file /\ s.cprocs[p].state = "alive"}

\* C21: stop() requests termination of every client tracked when it is
\* called and removes it from tracking, invokes the manager's stop only
\* afterwards, and whenever it is over the client table is empty and the
\* tunnel server is not running, also when a client does not exit within
\* its kill-wait.
C21_StopLeavesNothing ==
    [][SupStopStep =>
          /\ \A p \in LiveClients(sup) :
                /\ Did("terminate", p) \in Range(sup'.last.events)
                /\ Did("pop", p) \in Range(sup'.last.events)
          /\ sup'.last.events # <<>>
          /\ sup'.last.events[Len(sup'.last.events)] = Did("stop", 0)
          /\ sup'.frpc_processes = <<>>
          /\ ~running(frps')]_vars

\* the configured paths a call of start has to have tracked afterwards:
\* those whose file exists and whose spawn does not fail
Startable ==
    ({abspath(sup.frpc_configs[i]) : i \in DOMAIN sup.frpc_configs} \cap sup.files)
        \ sup'.last.failing

\* how a call of start must go when the client binary is there
C22_StartStep ==
    (SupStartStep /\ sup.frpc_available) =>
        /\ TrackedPaths(sup') = TrackedPaths(sup) \cup Startable
        /\ Len(sup'.frpc_processes) = Cardinality(TrackedPaths(sup'))
        /\ \A i \in DOMAIN sup.frpc_processes :
              sup'.frpc_processes[i] = sup.frpc_processes[i]
        /\ Len(sup'.cprocs) - Len(sup.cprocs)
              = Cardinality(TrackedPaths(sup') \ TrackedPaths(sup))
        /\ \A i \in DOMAIN sup'.frpc_processes :
              LET e == sup'.frpc_processes[i]
              IN  sup'.cprocs[e.process].config_path = e.config_path

\* C22: after start(), called any number of times and with duplicate paths
\* in the list, every configured path whose file exists and whose spawn
\* succeeded is tracked exactly once under its absolute path; no path has
\* two processes between stops; a missing file, a failed spawn or a failed
\* start of frps does not keep the other configs from being started.
C22_OneClientPerConfig ==
    /\ [](\A file \in ConfigFiles : Cardinality(LiveFor(sup, file)) <= 1)
    /\ [](TrackedPaths(sup) \subseteq ConfigFiles)
    /\ [][C22_StartStep]_vars

\* a list naming srv/a twice and srv/b: the second start found frps
\* failing and a tracked, and started b, whose spawn had failed before
C22_Witness ==
    /\ Len(sup.frpc_configs) = 3
    /\ sup.calls = 2
    /\ sup.last.op = "start"
    /\ ~sup.frps_launch_result.started
    /\ sup.frpc_processes = <<[config_path |-> <<"srv", "a">>, process |-> 1],
                              [config_path |-> <<"srv", "b">>, process |-> 2]>>
    /\ Len(sup.cprocs) = 2

-----------------------------------------------------------------------------
(* The validators called on their own (src/backend/security.py).           *)

\* the most characters of the short strings tried
MaxLen == 3

\* the characters the strings tried are made of
ProbeChars == {"a", "0", "-", "A", " ", "\n"}

\* every string of exactly n of these characters
StringsOf(n) == [1..n -> ProbeChars]

\* n times the character c
Repeat(c, n) == [i \in 1..n |-> c]

\* the strings tried: all short ones, and some around the length limit
RoomCodeInputs ==
    UNION {StringsOf(n) : n \in 0..MaxLen}
    \cup {Repeat("a", MAX_ROOM_CODE_LENGTH),
          Repeat("a", MAX_ROOM_CODE_LENGTH + 1),
          Repeat("a", MAX_ROOM_CODE_LENGTH - 1) \o <<"\n">>,
          Repeat("a", MAX_ROOM_CODE_LENGTH) \o <<"\n">>}

\* validate_room_code(room_code) is called
ValidateRoomCode ==
    /\ \E room_code \in RoomCodeInputs :
         probe' = [op |-> "validate_room_code", input |-> room_code,
                   answer |-> validate_room_code(room_code)]
    /\ UNCHANGED <<backend_vars, hub_vars, wsm_vars, http_vars, frps_vars, sup_vars, dash_vars, cli_vars, race_vars>>

\* the characters the project names tried are made of
ProjectChars == {"a", "0", "-", "A", " ", "_", "!", "\n"}

\* the project names tried: all short ones, and some around the length limit
ProjectNameInputs ==
    UNION {[1..n -> ProjectChars] : n \in 0..MaxLen}
    \cup {Repeat("a", MAX_ROOM_CODE_LENGTH),
          Repeat("a", MAX_ROOM_CODE_LENGTH + 1),
          <<"-", "_">> \o Repeat("A", MAX_ROOM_CODE_LENGTH) \o <<" ", "!">>,
          Repeat("a", MAX_ROOM_CODE_LENGTH - 2) \o Repeat(" ", 4) \o <<"b">>,
          Repeat("a", MAX_ROOM_CODE_LENGTH - 1) \o Repeat("_", 4) \o <<"b">>}

\* the status codes of the requests that name a room by the room_code that
\* create_room returned for project_name, on a backend that holds no room
addressed(project_name) ==
    LET created == create_room(<<>>, [project_name  |-> project_name,
                                      developer_id  |-> S_al,
                                      subdomain_url |-> U_al])
    IN  IF created.code # 201
        THEN [create |-> created.code, join |-> 0, status |-> 0, commits |-> 0,
              delete |-> 0]
        ELSE
        LET room_code == created.body.room_code
        IN  [create  |-> created.code,
             join    |-> join_room(created.rooms, [room_code     |-> room_code,
                                                developer_id  |-> S_bo,
                                                subdomain_url |-> U_bo]).code,
             status  |-> get_room_status(created.rooms, room_code).code,
             commits |-> get_room_commits(created.rooms, room_code).code,
             delete  |-> delete_room(created.rooms, AdminHeaders, room_code).code]

\* a project name arrives
ProjectNameArrives ==
    /\ probe.op = "none"
    /\ \E project_name \in ProjectNameInputs :
         probe' = [op |-> "project_name", input |-> project_name, answer |-> Invalid]
    /\ UNCHANGED <<backend_vars, hub_vars, wsm_vars, http_vars, frps_vars, sup_vars, dash_vars, cli_vars, race_vars>>

\* validate_project_name(project_name) is called; its result, when there is
\* one, is given to validate_room_code and to validate_project_name again
ValidateProjectName ==
    /\ probe.op = "project_name"
    /\ LET project_name == probe.input
           answer == validate_project_name(project_name)
       IN  probe' = [op |-> "validate_project_name", input |-> project_name,
                       answer |-> answer,
                       as_room_code |-> IF answer.ok
                                        THEN validate_room_code(answer.value)
                                        ELSE Invalid,
                       again |-> IF answer.ok
                                 THEN validate_project_name(answer.value)
                                 ELSE Invalid,
                       addressed |-> addressed(project_name)]
    /\ UNCHANGED <<backend_vars, hub_vars, wsm_vars, http_vars, frps_vars, sup_vars, dash_vars, cli_vars, race_vars>>

ValidateNext == ValidateRoomCode

\* one project name, derived once
DeriveNext ==
    \/ ProjectNameArrives
    \/ ValidateProjectName

DeriveSpec == Init /\ [][DeriveNext]_vars

ValidateSpec == Init /\ [][ValidateNext]_vars

\* the rule for room codes: 1 to 50 characters, each of [a-z0-9-], neither
\* the first nor the last a hyphen
WellFormedRoomCode(s) ==
    /\ s # <<>>
    /\ Len(s) <= 50
    /\ \A i \in DOMAIN s : s[i] \in LowerSet \cup DigitSet \cup {"-"}
    /\ s[1] # "-"
    /\ s[Len(s)] # "-"

\* C23: validate_room_code accepts exactly the strings that satisfy the rule
\* for room codes, and every value it returns satisfies the rule.
C23_RoomCodeRule ==
    probe.op = "validate_room_code" =>
        /\ probe.answer.ok <=> WellFormedRoomCode(probe.input)
        /\ probe.answer.ok => WellFormedRoomCode(probe.answer.value)

\* C40: whenever validate_project_name succeeds with result c,
\* validate_room_code(c) succeeds and returns c, validate_project_name(c)
\* returns c, and the room that create_room made for the project name is
\* found by join, status, commits and admin delete under the returned
\* room_code.
C40_DerivedCodeIsARoomCode ==
    (probe.op = "validate_project_name" /\ probe.answer.ok) =>
        /\ probe.as_room_code = Valid(probe.answer.value)
        /\ probe.again = Valid(probe.answer.value)
        /\ probe.addressed = [create |-> 201, join |-> 200, status |-> 200,
                              commits |-> 200, delete |-> 200]

\* a project name that the derivation rewrites into a code with a hyphen
C40_Witness ==
    /\ probe.op = "validate_project_name"
    /\ probe.answer.ok
    /\ probe.answer.value # probe.input
    /\ Contains(probe.answer.value, <<"-">>)
    /\ probe.addressed.create = 201

-----------------------------------------------------------------------------
(* The dashboard (src/proxy/app.py, dashboard).                            *)

\* MAX_DASHBOARD_COMMITS
MAX_DASHBOARD_COMMITS == 10

\* a template is a sequence of literal text and {{ name }} placeholders; a
\* rendered page has values where placeholders were
Text(text) == [kind |-> "text", name |-> text]

Placeholder(name) == [kind |-> "placeholder", name |-> name]

Value(name) == [kind |-> "value", name |-> name]

\* DASHBOARD_ERROR_TEMPLATE: the room code in the title, style rules, no body
DASHBOARD_ERROR_TEMPLATE ==
    <<Text("<title>MACT Dashboard - "), Placeholder("room_code"),
      Text("</title><style>.error-container .message .back-link</style>")>>

\* DASHBOARD_TEMPLATE
DASHBOARD_TEMPLATE ==
    <<Text("<title>MACT Dashboard - "), Placeholder("room_code"),
      Text("</title><h1>Room: "), Placeholder("room_code"),
      Text("</h1><table>"), Placeholder("participants_html"),
      Text("</table><table>"), Placeholder("commits_html"),
      Text("</table><script>const roomCode = "), Placeholder("room_code"),
      Text("</script>")>>

\* _simple_template_render, for templates without for and if blocks: each
\* {{ key }} of the context is replaced by its value
simple_template_render(template, keys) ==
    [i \in DOMAIN template |->
        IF template[i].kind = "placeholder" /\ template[i].name \in keys
        THEN Value(template[i].name) ELSE template[i]]

\* the participants a status payload may list
StatusParticipants ==
    {<<>>,
     <<[developer_id |-> S_al, subdomain_url |-> U_al, connected |-> TRUE]>>,
     <<[developer_id |-> S_al, subdomain_url |-> U_al, connected |-> FALSE],
       [developer_id |-> S_bo, subdomain_url |-> U_bo, connected |-> TRUE]>>}

\* what the backend may answer to GET /rooms/status
StatusReplies ==
    {NoReply}
    \cup {[reached |-> TRUE, status_code |-> c, is_json |-> TRUE,
           json |-> ErrorBody("Room not found")] : c \in {404, 500}}
    \cup {[reached |-> TRUE, status_code |-> 200, is_json |-> FALSE,
           json |-> [detail |-> <<>>]]}
    \cup {[reached |-> TRUE, status_code |-> 200, is_json |-> TRUE,
           json |-> [room_code |-> <<"x">>, active_developer |-> a,
                     participants |-> ps]] :
            a \in {None, S_bo}, ps \in StatusParticipants}

\* a commit as the backend lists it
ListedCommit(n) ==
    [commit_hash |-> <<"a","b","c","d","e","f","0">>, developer_id |-> S_al,
     branch |-> <<"m">>, commit_message |-> <<"m">>, timestamp |-> n]

\* what the backend may answer to GET /rooms/<room>/commits
CommitsReplies ==
    {NoReply}
    \cup {[reached |-> TRUE, status_code |-> c, is_json |-> TRUE,
           json |-> ErrorBody("Room not found")] : c \in {404, 500}}
    \cup {[reached |-> TRUE, status_code |-> 200, is_json |-> TRUE,
           json |-> [commits |-> [i \in 1..n |-> ListedCommit(i)]]] : n \in {0, 1, 2, 11}}
    \cup {[reached |-> TRUE, status_code |-> 200, is_json |-> FALSE,
           json |-> [detail |-> <<>>]]}

\* dashboard: the rows of the participants table
participants_rows(participants, active_dev) ==
    [idx \in DOMAIN participants |->
        LET p == participants[idx]
        IN  [idx |-> idx, developer_id |-> p.developer_id,
             subdomain |-> p.subdomain_url,
             status_text |-> IF p.developer_id = active_dev THEN "ACTIVE"
                             ELSE IF p.connected THEN "CONNECTED"
                             ELSE "DISCONNECTED"]]

\* dashboard: the rows of the commits table, list(reversed(commits))[:10]
commits_rows(commits) ==
    LET n == IF Len(commits) < MAX_DASHBOARD_COMMITS THEN Len(commits)
             ELSE MAX_DASHBOARD_COMMITS
    IN  [idx \in 1..n |->
            LET commit == commits[Len(commits) + 1 - idx]
            IN  [idx |-> idx, commit_hash |-> SubSeq(commit.commit_hash, 1, 7),
                 developer_id |-> commit.developer_id,
                 timestamp |-> commit.timestamp]]

\* dashboard, up to the status lookup: 400 when no room can be worked out
DashRequest ==
    /\ page.pc = "new"
    /\ \E r \in SessionRequests :
         LET room_code == extract_room_code(r.path_room, r.host)
         IN  page' = IF Falsy(room_code)
                     THEN [page EXCEPT !.pc = "answered", !.status_code = 400,
                                       !.html = <<Text("Could not determine room from URL")>>]
                     ELSE [page EXCEPT !.pc = "status", !.room_code = room_code]
    /\ UNCHANGED <<backend_vars, hub_vars, wsm_vars, http_vars, frps_vars, sup_vars, probe_vars, cli_vars, race_vars>>

\* _fetch_room_status: the status answer arrives; a BackendLookupError
\* makes dashboard render the error page
DashStatus ==
    /\ page.pc = "status"
    /\ \E reply \in StatusReplies :
         LET status_payload == get_backend_json(reply)
             asked          == [page EXCEPT !.status_reply = reply]
         IN  page' =
               IF status_payload.raised
               THEN [asked EXCEPT
                       !.pc = "answered",
                       !.status_code = status_payload.status_code,
                       !.context.room_code = page.room_code,
                       !.context.message = status_payload.message,
                       !.html = simple_template_render(DASHBOARD_ERROR_TEMPLATE,
                                                       {"room_code", "message"})]
               ELSE [asked EXCEPT !.pc = "commits"]
    /\ UNCHANGED <<backend_vars, hub_vars, wsm_vars, http_vars, frps_vars, sup_vars, probe_vars, cli_vars, race_vars>>

\* _fetch_room_status from the commits answer on, and the rest of dashboard
DashCommits ==
    /\ page.pc = "commits"
    /\ \E reply \in CommitsReplies :
         LET commits_payload == get_backend_json(reply)
             commits == IF commits_payload.raised THEN <<>>
                        ELSE commits_payload.payload.commits
             status_payload == page.status_reply.json
         IN  page' =
               [page EXCEPT
                  !.pc = "answered", !.commits_reply = reply, !.status_code = 200,
                  !.context.room_code = status_payload.room_code,
                  !.context.participants_html =
                      participants_rows(status_payload.participants,
                                        status_payload.active_developer),
                  !.context.commits_html = commits_rows(commits),
                  !.html = simple_template_render(DASHBOARD_TEMPLATE,
                              {"room_code", "active_developer",
                               "participants_html", "commits_html"}),
                  !.headers = ("cache-control" :> "no-cache, no-store, must-revalidate")
                              @@ ("pragma" :> "no-cache") @@ ("expires" :> "0")]
    /\ UNCHANGED <<backend_vars, hub_vars, wsm_vars, http_vars, frps_vars, sup_vars, probe_vars, cli_vars, race_vars>>

DashNext ==
    \/ DashRequest
    \/ DashStatus
    \/ DashCommits

DashSpec == Init /\ [][DashNext]_vars

\* the rendered page shows the value of the context key
Carries(html, key) == \E i \in DOMAIN html : html[i] = Value(key)

\* C24: when the status fetch fails, the dashboard answers with the error's
\* status code and a page that carries both the room code and the failure
\* message; when only the commit-history fetch fails, it answers 200 with
\* the participants rendered and an empty commit list.
C24_DashboardDegrades ==
    /\ (page.pc = "answered" /\ page.room_code # None
        /\ get_backend_json(page.status_reply).raised) =>
          /\ page.status_code = get_backend_json(page.status_reply).status_code
          /\ page.context.room_code = page.room_code
          /\ page.context.message = get_backend_json(page.status_reply).message
          /\ Carries(page.html, "room_code")
          /\ Carries(page.html, "message")
    /\ (page.pc = "answered" /\ page.room_code # None
        /\ ~get_backend_json(page.status_reply).raised
        /\ get_backend_json(page.commits_reply).raised) =>
          /\ page.status_code = 200
          /\ Len(page.context.participants_html)
                = Len(page.status_reply.json.participants)
          /\ page.context.commits_html = <<>>
          /\ Carries(page.html, "participants_html")
          /\ Carries(page.html, "commits_html")

-----------------------------------------------------------------------------
(* src/admin_cli.py: the commands "rooms info" and "rooms list".  A command *)
(* is one call of its function: the requests it sends are answered by the  *)
(* backend's handlers above, on a room table the backend can be in.        *)

\* the most commits the room has when the CLI asks for them
MaxListed == 11

HexDigits == <<"1","2","3","4","5","6","7","8","9","a","b","c","d","e","f">>

\* the n-th commit hash reported: seven hexadecimal digits
HashNo(n) == <<"a","b","c","1","2","3">> \o <<HexDigits[n]>>

\* the room table after developer_id reported n more commits to room demo
RECURSIVE Committed(_, _, _)
Committed(rs, developer_id, n) ==
    IF n = 0 THEN rs
    ELSE report_commit_validated(Committed(rs, developer_id, n - 1), S_demo,
             developer_id,
             [commit_hash |-> HashNo(n), branch |-> RawBranch,
              commit_message |-> <<"f","i","x">>],
             "now").rooms

\* al created room demo
Created == create_room_validated(<<>>, S_demo, S_al, U_al).rooms

\* bo joined it
Joined == join_room_validated(Created, S_demo, S_bo, U_bo).rooms

\* room tables of the backend: none, room demo with no commit and with up
\* to MaxListed, with two participants, and a second room created after
\* demo's first commit
CliStores ==
    {<<>>}
      \cup {Committed(Created, S_al, n) : n \in 0..MaxListed}
      \cup {Committed(Joined, S_al, n) : n \in {0, 1}}
      \cup {Committed(Committed(Joined, S_al, 1), S_bo, 2),
            create_room_validated(Committed(Created, S_al, 1),
                                  <<"x">>, S_bo, U_bo).rooms}

\* requests.get: the response, or none (ConnectionError, Timeout)
Unreached == [reached |-> FALSE, status_code |-> 0, json |-> <<>>]

Response(result) == [reached |-> TRUE, status_code |-> result.code, json |-> result.body]

\* get_auth_headers: no header without ADMIN_TOKEN, else a Bearer token
CliTokens == {"", ADMIN_API_KEY, "wrong"}

get_auth_headers(token) ==
    [authorization |-> IF token = "" THEN <<>> ELSE <<"Bearer ", token>>,
     api_key |-> ""]

\* resp.json(): a JSON object is a dict, a JSON string a str, null is None
JsonDict(d) == [type |-> "dict", value |-> d]

JsonStr(s) == [type |-> IF s = None THEN "NoneType" ELSE "str", value |-> s]

\* Python's == on two parsed JSON values: values of different types differ
json_eq(a, b) == a.type = b.type /\ a.value = b.value

\* s[:n]
Slice(s, n) == SubSeq(s, 1, IF Len(s) < n THEN Len(s) ELSE n)

\* a command's outcome
CliOutcome(op, code, answered) ==
    [NewCli EXCEPT !.op = op, !.code = code, !.answered = answered]

\* cmd_rooms_info: one line of the participant list
participant_line(participant, active_developer) ==
    [marker      |-> IF json_eq(JsonDict(participant), JsonStr(active_developer))
                     THEN "active" ELSE "inactive",
     participant |-> participant]

\* cmd_rooms_info: one row of the commit table
commit_row(commit) ==
    [developer      |-> commit.developer_id,
     commit_hash    |-> Slice(commit.commit_hash, 10),
     commit_message |-> Slice(commit.commit_message, 28)]

\* cmd_rooms_info(args), with the responses to its two requests
cmd_rooms_info(status_resp, commits_resp) ==
    IF ~status_resp.reached THEN CliOutcome("rooms_info", 1, 0)
    ELSE IF status_resp.status_code = 404
    THEN CliOutcome("rooms_info", 1, 404)
    ELSE IF status_resp.status_code # 200
    THEN CliOutcome("rooms_info", 1, status_resp.status_code)
    ELSE IF ~commits_resp.reached THEN CliOutcome("rooms_info", 1, 200)
    ELSE
    LET status_data == status_resp.json
        commits     == IF commits_resp.status_code = 200
                       THEN commits_resp.json.commits ELSE <<>>
        shown       == Slice(commits, 10)
    IN  [CliOutcome("rooms_info", 0, 200) EXCEPT
            !.status_data  = status_data,
            !.listed       = commits,
            !.participants = [i \in DOMAIN status_data.participants |->
                                 participant_line(status_data.participants[i],
                                                  status_data.active_developer)],
            !.commits      = [i \in DOMAIN shown |-> commit_row(shown[i])]]

\* format(value, "<20"): str and int take the format, None raises TypeError
Formats(value) == value # None

\* cmd_rooms_list, the loop "for room in rooms" from index i up: the rows
\* printed, and whether a print raised
RECURSIVE print_rooms(_, _, _)
print_rooms(listing, i, rows) ==
    IF i > Len(listing) THEN [rows |-> rows, raised |-> FALSE]
    ELSE IF ~Formats(listing[i].active_developer)
    THEN [rows |-> rows, raised |-> TRUE]
    ELSE print_rooms(listing, i + 1,
             Append(rows, [room_code    |-> listing[i].room_code,
                           participants |-> Len(listing[i].participants),
                           commit_count |-> listing[i].commit_count,
                           active_dev   |-> listing[i].active_developer]))

\* cmd_rooms_list(args), with the response to its request; listing is the
\* JSON array "rooms" in the order the backend wrote it
cmd_rooms_list(resp, listing) ==
    IF ~resp.reached THEN CliOutcome("rooms_list", 1, 0)
    ELSE IF resp.status_code = 401 THEN CliOutcome("rooms_list", 1, 401)
    ELSE IF resp.status_code # 200
    THEN CliOutcome("rooms_list", 1, resp.status_code)
    ELSE IF listing = <<>>
    THEN CliOutcome("rooms_list", 0, 200)
    ELSE
    LET printed == print_rooms(listing, 1, <<>>)
    IN  [CliOutcome("rooms_list", IF printed.raised THEN 1 ELSE 0, 200) EXCEPT
            !.rooms = listing,
            !.rows  = printed.rows]

\* the orders in which a dict's items can have been inserted
Enumerations(S) ==
    {f \in [1..Cardinality(S) -> S] : \A x \in S : \E i \in DOMAIN f : f[i] = x}

\* mact-admin rooms info <room-code>; the room table can change between the
\* two requests
CliRoomsInfo ==
    /\ \E room \in PathRoomCodes, first \in CliStores, second \in CliStores :
         \E status_resp \in {Unreached, Response(get_room_status(first, room))},
            commits_resp \in {Unreached, Response(get_room_commits(second, room))} :
           cli' = cmd_rooms_info(status_resp, commits_resp)
    /\ UNCHANGED <<backend_vars, hub_vars, wsm_vars, http_vars, frps_vars,
                   sup_vars, probe_vars, dash_vars, race_vars>>

\* mact-admin rooms list
CliRoomsList ==
    /\ \E token \in CliTokens, store \in CliStores :
         LET result == list_all_rooms(store, get_auth_headers(token))
         IN  \/ cli' = cmd_rooms_list(Unreached, <<>>)
             \/ /\ result.code # 200
                /\ cli' = cmd_rooms_list(Response(result), <<>>)
             \/ /\ result.code = 200
                /\ \E listing \in Enumerations(result.body.rooms) :
                     cli' = cmd_rooms_list(Response(result), listing)
    /\ UNCHANGED <<backend_vars, hub_vars, wsm_vars, http_vars, frps_vars,
                   sup_vars, probe_vars, dash_vars, race_vars>>

CliNext ==
    \/ CliRoomsInfo
    \/ CliRoomsList

CliSpec == Init /\ [][CliNext]_vars

\* the last k elements of a sequence
LastK(s, k) == SubSeq(s, Len(s) - k + 1, Len(s))

-----------------------------------------------------------------------------
(* src/backend/app.py: create_room under Flask's threaded server.  Each    *)
(* request runs in a thread of its own; nothing is locked, so another      *)
(* thread can run between the test "room_code in rooms" and the store      *)
(* "rooms[room_code] = ...".                                               *)

\* create_room up to and including the test "if room_code in rooms": the
\* request is answered 400 or 409, or goes on to the store
create_room_checked(rs, data) ==
    LET r == create_room(rs, data)
    IN  IF r.code # 201 THEN [NoCreate EXCEPT !.pc = "done", !.code = r.code]
        ELSE [NoCreate EXCEPT
                !.pc = "store",
                !.room_code = project_name_of(data.project_name).value,
                !.developer_id = developer_id_of(data.developer_id).value,
                !.subdomain_url = subdomain_url_of(data.subdomain_url).value]

\* create_room from the store on: rooms[room_code] = {...}, answer 201
create_room_stored(rs, c) ==
    PutRoom(rs, c.room_code,
        [participants |-> <<[developer_id |-> c.developer_id,
                             info |-> StrInfo(c.subdomain_url)]>>,
         commits |-> <<>>])

\* POST /rooms/create arrives and its thread runs up to the test
CreateChecks ==
    /\ \E k \in 1..MaxCreates, data \in CreateBodies :
         /\ creates[k].pc = "idle"
         /\ \A j \in 1..(k - 1) : creates[j].pc # "idle"
         /\ creates' = [creates EXCEPT ![k] = create_room_checked(rooms, data)]
    /\ UNCHANGED <<rooms, last>>
    /\ UNCHANGED <<hub_vars, wsm_vars, http_vars, frps_vars, sup_vars,
                   probe_vars, dash_vars, cli_vars>>

\* the thread runs on: it stores the room and answers 201
CreateStores ==
    /\ \E k \in 1..MaxCreates :
         /\ creates[k].pc = "store"
         /\ rooms' = create_room_stored(rooms, creates[k])
         /\ creates' = [creates EXCEPT ![k].pc = "done", ![k].code = 201]
    /\ UNCHANGED last
    /\ UNCHANGED <<hub_vars, wsm_vars, http_vars, frps_vars, sup_vars,
                   probe_vars, dash_vars, cli_vars>>

RaceNext ==
    \/ CreateChecks
    \/ CreateStores

RaceSpec == Init /\ [][RaceNext]_vars

\* C33: under every interleaving of create-room requests that derive the
\* same room_code, at most one answers 201 and the others answer 409, and
\* the room's single participant is the caller that got 201.
C33_CreateAtomic ==
    \A j \in 1..MaxCreates, k \in 1..MaxCreates :
        (/\ creates[j].pc = "done" /\ creates[j].code = 201
         /\ creates[k].pc = "done" /\ k # j
         /\ creates[k].room_code = creates[j].room_code) =>
            /\ creates[k].code = 409
            /\ Keys(rooms[creates[j].room_code].participants)
                  = <<creates[j].developer_id>>

\* C25: "rooms info" prints up to the 10 most recent commits: for a room
\* with n commits, appended oldest to newest, the commits shown are the last
\* min(n, 10) entries of the backend's commit list.
C25_MostRecentCommitsShown ==
    (cli.op = "rooms_info" /\ cli.code = 0) =>
        LET n      == Len(cli.listed)
            k      == IF n < 10 THEN n ELSE 10
            recent == LastK(cli.listed, k)
        IN  cli.commits = [i \in 1..k |-> commit_row(recent[i])]

\* C26: in the participant list "rooms info" prints, exactly the entry of
\* the developer the status endpoint reports as active_developer carries the
\* active marker, and every other participant the inactive marker.
C26_ActiveParticipantFlagged ==
    (cli.op = "rooms_info" /\ cli.code = 0) =>
        /\ Len(cli.participants) = Len(cli.status_data.participants)
        /\ \A i \in DOMAIN cli.participants :
             /\ cli.participants[i].participant = cli.status_data.participants[i]
             /\ cli.participants[i].marker =
                  IF cli.status_data.participants[i].developer_id
                        = cli.status_data.active_developer
                  THEN "active" ELSE "inactive"

\* C27: whenever the backend answers the admin list with 200, "rooms list"
\* prints one row per room, or the no-rooms message, and returns exit code
\* 0, also for rooms that have no commits yet; it returns 1 only when the
\* request was refused, failed, or not answered.
C27_ListSucceedsOn200 ==
    (cli.op = "rooms_list") =>
        /\ cli.answered = 200 =>
             /\ cli.code = 0
             /\ Len(cli.rows) = Len(cli.rooms)
             /\ \A i \in DOMAIN cli.rows :
                  /\ cli.rows[i].room_code = cli.rooms[i].room_code
                  /\ cli.rows[i].participants = Len(cli.rooms[i].participants)
                  /\ cli.rows[i].commit_count = cli.rooms[i].commit_count
                  /\ cli.rows[i].active_dev = cli.rooms[i].active_developer
        /\ cli.code = 1 => cli.answered # 200

=============================================================================
